---- MODULE Spec2Model ----
(***************************************************************************)
(* Model of the stateful policies of httpauth-go: the Digest policy with   *)
(* its residence-time client cache (clients map + lru heap) and the Cookie *)
(* policy with its session table (clientsByNonce, clientsByUser, lru).     *)
(*                                                                         *)
(* Conventions                                                             *)
(*  - crypto/rand nonces are modelled as fresh identifiers 1, 2, 3, ...    *)
(*    (a 96-bit random value never repeats); createNonce may also fail.    *)
(*  - a nonce identifier stands for the 16-character base64 string.        *)
(*  - time.Now().UnixNano() is the variable now, advanced by Tick.         *)
(*  - md5 is modelled as an injective constructor over its input.          *)
(*  - every handler is one action (one sequential call).                   *)
(***************************************************************************)
EXTENDS Integers, Sequences, FiniteSets, TLC

\* ------------------------------------------------------------------ bounds
MaxNonces == 2

MaxReplayNonces == 1

MaxSessions == 2

MaxWorkers == 2

MaxTime == 2

ClientCacheResidence == 2
\* The largest request counter a response is computed for.
MaxCounter == 4
\* The longest user:password string a Basic client encodes.
MaxCredLen == 3
\* The most entries of a heap handed to evictLeastRecentlySeen.
MaxEntries == 3
\* The largest ClientCacheSize and ClientCacheDelta a size-bounded Digest is
\* configured with, and the most nonces it issues.
MaxCacheSize == 1

MaxCacheDelta == 2

MaxIssued == 4

\* ------------------------------------------------------- program constants
nonceLen == 16

nonceBytes == 12

StatusUnauthorized == 401

StatusInternalServerError == 500

StatusTemporaryRedirect == 307

\* ------------------------------------------------------------ state
VARIABLES
    now,            \* time.Now().UnixNano()
    clients,        \* Digest.clients : nonce -> digestClientInfo
    lru,            \* Digest.lru     : heap array of pointers (nonces)
    dNonces,        \* number of nonces createNonce has produced for Digest
    dLast,          \* the last Digest call: operation, request, result
    accepted,       \* history: the counters Authorize has accepted, per nonce
    ascended,       \* history: the counters accepted after a lower one, per nonce
    RequireXsrfHeader,  \* Cookie.RequireXsrfHeader
    clientsByNonce, \* Cookie.clientsByNonce : nonce -> pointer
    clientsByUser,  \* Cookie.clientsByUser  : username -> pointer
    cookieLru,      \* Cookie.lru : heap array of pointers
    cInfo,          \* the cookieClientInfo records the pointers refer to
    cNonces,        \* number of nonces stored in a session so far
    cLast,          \* the last Cookie call: operation, arguments, results
    sessions,       \* history: user and fate of every nonce handed out
    pc,             \* per worker: where its call stands
    local,          \* per worker: the arguments and local variables of its call
    mutex,          \* Cookie.mutex: 0 when free, else the worker holding it
    bLast,          \* the last Basic call: operation, header, results
    hLast,          \* the response being computed: parameters and the hashes so far
    eLast,          \* the eviction being run: heap, maps, residence, clock, iterations
    nLast,          \* the nonce being made: random bytes, error, the string returned
    ClientCacheSize,    \* Digest.ClientCacheSize of the size-bounded Digest
    ClientCacheDelta,   \* Digest.ClientCacheDelta of the size-bounded Digest
    md5             \* Digest.md5: what was written to the hash object since Reset

hvars == <<accepted, ascended>>

dvars == <<clients, lru, dNonces, dLast, accepted, ascended>>

cvars == <<RequireXsrfHeader, clientsByNonce, clientsByUser, cookieLru, cInfo,
           cNonces, cLast, sessions>>

wvars == <<pc, local, mutex>>

bvars == <<bLast, hLast, eLast, nLast, ClientCacheSize, ClientCacheDelta, md5>>

vars == <<now, clients, lru, dNonces, dLast, accepted, ascended,
          RequireXsrfHeader, clientsByNonce, clientsByUser, cookieLru, cInfo,
          cNonces, cLast, sessions, pc, local, mutex, bLast, hLast, eLast, nLast,
          ClientCacheSize, ClientCacheDelta, md5>>

\* ------------------------------------------------------------ helpers
Nonces == 1..MaxNonces

Range(f) == {f[x] : x \in DOMAIN f}

Realm == "golang"

opaque == "opq"

Users == {"user1"}

\* PasswordLookup of the tests: the password of a known user is its name.
Auth(username) == IF username \in Users THEN username ELSE ""

calcHash(data) == <<"md5", data>>

\* base64.StdEncoding.EncodedLen
EncodedLen(n) == ((n + 2) \div 3) * 4

HexDigit == [c \in {"0", "1", "2", "a"} |->
                CASE c = "0" -> 0 [] c = "1" -> 1 [] c = "2" -> 2 [] c = "a" -> 10]

RECURSIVE HexValue(_)
HexValue(s) == IF Len(s) = 0 THEN 0
               ELSE 16 * HexValue(SubSeq(s, 1, Len(s) - 1)) + HexDigit[s[Len(s)]]

\* strconv.ParseUint(s, 16, 64): ok is FALSE for the empty string and for
\* any character that is not a hexadecimal digit.
ParseUint(s) ==
    IF Len(s) > 0 /\ \A i \in 1..Len(s) : s[i] \in DOMAIN HexDigit
    THEN [ok |-> TRUE, value |-> HexValue(s)]
    ELSE [ok |-> FALSE, value |-> 0]

\* ------------------------------------------------------------ container/heap
\* The heap array holds pointers; lc gives the lastContact of the record a
\* pointer refers to (digestPriorityQueue.Less reads it through the pointer).
Less(pq, lc, i, j) == lc[pq[i]] < lc[pq[j]]

Swap(pq, i, j) == [pq EXCEPT ![i] = pq[j], ![j] = pq[i]]

\* heap.up, indices from 1: the parent of j is j \div 2.
RECURSIVE heapUp(_, _, _)
heapUp(pq, lc, j) ==
    IF j > 1 /\ Less(pq, lc, j, j \div 2)
    THEN heapUp(Swap(pq, j, j \div 2), lc, j \div 2)
    ELSE pq

\* heap.down over the first n elements, indices from 1: children 2i, 2i+1.
RECURSIVE heapDown(_, _, _, _)
heapDown(pq, lc, i, n) ==
    IF 2 * i > n THEN pq
    ELSE LET j1 == 2 * i
             j  == IF j1 + 1 <= n /\ Less(pq, lc, j1 + 1, j1) THEN j1 + 1 ELSE j1
         IN  IF Less(pq, lc, j, i) THEN heapDown(Swap(pq, i, j), lc, j, n) ELSE pq

\* heap.Push: append (Push method), then up from the last index.
heapPush(pq, lc, x) == heapUp(Append(pq, x), lc, Len(pq) + 1)

\* heap.Pop: swap root and last, down over the first n-1, then the Pop
\* method removes and returns the last element.
heapPop(pq, lc) ==
    LET n == Len(pq)
        d == heapDown(Swap(pq, 1, n), lc, 1, n - 1)
    IN  [pq |-> SubSeq(d, 1, n - 1), ret |-> d[n]]

\* ------------------------------------------------------------ Digest
lastContactOf(cl) == [n \in DOMAIN cl |-> cl[n].lastContact]

\* digestPriorityQueue.MinValue: the lastContact of the LAST array element.
MinValue(pq, cl) == cl[pq[Len(pq)]].lastContact

Remove(f, k) == [x \in DOMAIN f \ {k} |-> f[x]]

RECURSIVE evictLoop(_, _, _)
evictLoop(pq, cl, t) ==
    IF Len(pq) > 0 /\ MinValue(pq, cl) + ClientCacheResidence <= t
    THEN LET p == heapPop(pq, lastContactOf(cl))
         IN  evictLoop(p.pq, Remove(cl, p.ret), t)
    ELSE [lru |-> pq, clients |-> cl]

\* Digest.evictLeastRecentlySeen at time t.
Digest_evictLeastRecentlySeen(pq, cl, t) == evictLoop(pq, cl, t)

cnonce == "c1"

\* HA1, HA2, HA3 of Digest.Authorize.
HA1(username, password) == calcHash(<<username, Realm, password>>)

HA2(method, path) == calcHash(<<method, path>>)

HA3(username, password, method, path, nonce, nc, cn, qop) ==
    calcHash(<<HA1(username, password), nonce, nc, cn, qop, HA2(method, path)>>)

\* The counter test left out: any counter is taken.
counterReplayed_noCheck(stored, numContacts) == FALSE

counterReplayed_equalAllowed(stored, numContacts) ==
    stored # 0 /\ stored > numContacts

\* The counter test of Authorize: TRUE when the request is a replay.
counterReplayed(stored, numContacts) == stored # 0 /\ stored >= numContacts

validate_noUriCheck(req) ==
    IF req.scheme = "" THEN ""
    ELSE IF req.scheme # "Digest" THEN ""
    ELSE IF req.opaque # opaque \/ req.algorithm # "MD5" \/ req.qop # "auth" THEN ""
    ELSE IF req.username = "" THEN ""
    ELSE IF Auth(req.username) = "" THEN ""
    ELSE IF HA3(req.username, Auth(req.username), req.method, req.path,
                req.nonce, req.nc, req.cnonce, req.qop) # req.response THEN ""
    ELSE IF ~ParseUint(req.nc).ok THEN ""
    ELSE req.username

\* The checks of Authorize that do not read the cache, in source order:
\* header, scheme, opaque/algorithm/qop, uri, username, password, response,
\* counter syntax.  The username on success, "" otherwise.
validate(req) ==
    IF req.scheme = "" THEN ""
    ELSE IF req.scheme # "Digest" THEN ""
    ELSE IF req.opaque # opaque \/ req.algorithm # "MD5" \/ req.qop # "auth" THEN ""
    ELSE IF req.uri # req.path THEN ""
    ELSE IF req.username = "" THEN ""
    ELSE IF Auth(req.username) = "" THEN ""
    ELSE IF HA3(req.username, Auth(req.username), req.method, req.path,
                req.nonce, req.nc, req.cnonce, req.qop) # req.response THEN ""
    ELSE IF ~ParseUint(req.nc).ok THEN ""
    ELSE req.username

\* Authorize without the else branch of the lookup: a validated request
\* whose nonce is not cached falls through to return username.
Digest_Authorize_unknownNonceAccepted(req, cl, t) ==
    LET username    == validate(req)
        numContacts == ParseUint(req.nc).value
    IN  IF username = "" THEN [username |-> "", clients |-> cl]
        ELSE IF req.nonce \in DOMAIN cl
        THEN IF counterReplayed(cl[req.nonce].numContacts, numContacts)
             THEN [username |-> "", clients |-> cl]
             ELSE [username |-> username,
                   clients  |-> [cl EXCEPT ![req.nonce] =
                                    [numContacts |-> numContacts,
                                     lastContact |-> t,
                                     nonce       |-> req.nonce]]]
        ELSE [username |-> username, clients |-> cl]

Digest_Authorize_touchBeforeCheck(req, cl, t) ==
    LET username    == validate(req)
        numContacts == ParseUint(req.nc).value
    IN  IF username = "" THEN [username |-> "", clients |-> cl]
        ELSE IF req.nonce \in DOMAIN cl
        THEN IF counterReplayed(cl[req.nonce].numContacts, numContacts)
             THEN [username |-> "",
                   clients  |-> [cl EXCEPT ![req.nonce].lastContact = t]]
             ELSE [username |-> username,
                   clients  |-> [cl EXCEPT ![req.nonce] =
                                    [numContacts |-> numContacts,
                                     lastContact |-> t,
                                     nonce       |-> req.nonce]]]
        ELSE [username |-> "", clients |-> cl]

\* Digest.Authorize at time t: the username returned and the cache after it.
Digest_Authorize(req, cl, t) ==
    LET username    == validate(req)
        numContacts == ParseUint(req.nc).value
    IN  IF username = "" THEN [username |-> "", clients |-> cl]
        ELSE IF req.nonce \in DOMAIN cl
        THEN IF counterReplayed(cl[req.nonce].numContacts, numContacts)
             THEN [username |-> "", clients |-> cl]
             ELSE [username |-> username,
                   clients  |-> [cl EXCEPT ![req.nonce] =
                                    [numContacts |-> numContacts,
                                     lastContact |-> t,
                                     nonce       |-> req.nonce]]]
        ELSE [username |-> "", clients |-> cl]

Digest_NotifyAuthRequired_noHeapPush(pq, cl, t, rndOk, nonce) ==
    LET ev == Digest_evictLeastRecentlySeen(pq, cl, t)
    IN  IF ~rndOk
        THEN [clients |-> ev.clients, lru |-> ev.lru,
              status |-> StatusInternalServerError,
              hdr |-> [realm |-> "", nonce |-> 0, opaque |-> "",
                       algorithm |-> "", qop |-> ""]]
        ELSE LET ci  == [numContacts |-> 0, lastContact |-> t, nonce |-> nonce]
                 cl2 == [n \in DOMAIN ev.clients \union {nonce} |->
                            IF n = nonce THEN ci ELSE ev.clients[n]]
             IN  [clients |-> cl2,
                  lru |-> ev.lru,
                  status |-> StatusUnauthorized,
                  hdr |-> [realm |-> Realm, nonce |-> nonce, opaque |-> opaque,
                           algorithm |-> "MD5", qop |-> "auth"]]

\* NotifyAuthRequired that stores the record and writes the challenge before
\* it looks at the error of createNonce.
Digest_NotifyAuthRequired_errorIgnored(pq, cl, t, rndOk, nonce) ==
    LET ev  == Digest_evictLeastRecentlySeen(pq, cl, t)
        ci  == [numContacts |-> 0, lastContact |-> t, nonce |-> nonce]
        cl2 == [n \in DOMAIN ev.clients \union {nonce} |->
                   IF n = nonce THEN ci ELSE ev.clients[n]]
    IN  [clients |-> cl2,
         lru |-> heapPush(ev.lru, lastContactOf(cl2), nonce),
         status |-> StatusUnauthorized,
         hdr |-> [realm |-> Realm, nonce |-> nonce, opaque |-> opaque,
                  algorithm |-> "MD5", qop |-> "auth"]]

\* Digest.NotifyAuthRequired at time t; rndOk is whether crypto/rand delivers.
\* The nonce is the next fresh one.
Digest_NotifyAuthRequired(pq, cl, t, rndOk, nonce) ==
    LET ev == Digest_evictLeastRecentlySeen(pq, cl, t)
    IN  IF ~rndOk
        THEN [clients |-> ev.clients, lru |-> ev.lru,
              status |-> StatusInternalServerError,
              hdr |-> [realm |-> "", nonce |-> 0, opaque |-> "",
                       algorithm |-> "", qop |-> ""]]
        ELSE LET ci  == [numContacts |-> 0, lastContact |-> t, nonce |-> nonce]
                 cl2 == [n \in DOMAIN ev.clients \union {nonce} |->
                            IF n = nonce THEN ci ELSE ev.clients[n]]
             IN  [clients |-> cl2,
                  lru |-> heapPush(ev.lru, lastContactOf(cl2), nonce),
                  status |-> StatusUnauthorized,
                  hdr |-> [realm |-> Realm, nonce |-> nonce, opaque |-> opaque,
                           algorithm |-> "MD5", qop |-> "auth"]]

\* ------------------------------------------------------------ Cookie
\* Authenticator of the tests: username == password.
CookieAuth(username, password) == username = password

\* A cookie value: the nonce it spells (0: none that was handed out) and its
\* length.  createNonce encodes nonceBytes random bytes in base64.
Token(id) == [present |-> TRUE, id |-> id, len |-> EncodedLen(nonceBytes)]

NoCookie == [present |-> FALSE, id |-> 0, len |-> 0]

EmptyCookie == [present |-> TRUE, id |-> 0, len |-> 0]

ShortCookie == [present |-> TRUE, id |-> 0, len |-> 5]

\* The records still referred to by a map or by the heap.
Live(byNonce, byUser, pq, info) ==
    [o \in (Range(byNonce) \union Range(byUser) \union Range(pq)) \intersect DOMAIN info
        |-> info[o]]

RECURSIVE cookieEvictLoop(_, _, _, _, _)
cookieEvictLoop(pq, byNonce, byUser, info, t) ==
    IF Len(pq) > 0 /\ MinValue(pq, info) + ClientCacheResidence <= t
    THEN LET p      == heapPop(pq, lastContactOf(info))
             client == info[p.ret]
         IN  cookieEvictLoop(p.pq, Remove(byNonce, client.nonce),
                             Remove(byUser, client.username), info, t)
    ELSE [lru |-> pq, byNonce |-> byNonce, byUser |-> byUser]

\* Cookie.evictLeastRecentlySeen at time t.
Cookie_evictLeastRecentlySeen(pq, byNonce, byUser, info, t) ==
    cookieEvictLoop(pq, byNonce, byUser, info, t)

\* The X-Xsrf-Cookie header of a request: absent, or present with a value.
NoXsrf == [present |-> FALSE, value |-> ""]

XsrfHeaders == {NoXsrf, [present |-> TRUE, value |-> ""], [present |-> TRUE, value |-> "1"]}

\* VerifyXsrfHeader: the header X-Xsrf-Cookie is present, whatever its value.
VerifyXsrfHeader(req) == req.xsrf.present

\* r.Cookie returns a nil *http.Cookie together with its error when the
\* request has no such cookie; reading token.Value through it panics.
NilDeref(token) == ~token.present

Cookie_Authorize_lengthOfBytes(req, byNonce, info, t, requireXsrf) ==
    LET reject == [username |-> "", info |-> info, fault |-> FALSE]
    IN  IF requireXsrf /\ ~VerifyXsrfHeader(req) THEN reject
        ELSE IF ~req.token.present THEN reject
        ELSE IF NilDeref(req.token) THEN [reject EXCEPT !.fault = TRUE]
        ELSE IF req.token.len = 0 THEN reject
        ELSE IF req.token.len # nonceBytes THEN reject
        ELSE IF req.token.id \in DOMAIN byNonce
        THEN LET o == byNonce[req.token.id]
             IN  [username |-> info[o].username,
                  info |-> [info EXCEPT ![o].lastContact = t],
                  fault |-> FALSE]
        ELSE reject

Cookie_Authorize_noXsrfGate(req, byNonce, info, t, requireXsrf) ==
    LET reject == [username |-> "", info |-> info, fault |-> FALSE]
    IN  IF ~req.token.present THEN reject
        ELSE IF NilDeref(req.token) THEN [reject EXCEPT !.fault = TRUE]
        ELSE IF req.token.len = 0 THEN reject
        ELSE IF req.token.len # nonceLen THEN reject
        ELSE IF req.token.id \in DOMAIN byNonce
        THEN LET o == byNonce[req.token.id]
             IN  [username |-> info[o].username,
                  info |-> [info EXCEPT ![o].lastContact = t],
                  fault |-> FALSE]
        ELSE reject

Cookie_Authorize_valueBeforeError(req, byNonce, info, t, requireXsrf) ==
    LET reject == [username |-> "", info |-> info, fault |-> FALSE]
    IN  IF requireXsrf /\ ~VerifyXsrfHeader(req) THEN reject
        ELSE IF NilDeref(req.token) THEN [reject EXCEPT !.fault = TRUE]
        ELSE IF req.token.len = 0 THEN reject
        ELSE IF ~req.token.present THEN reject
        ELSE IF req.token.len # nonceLen THEN reject
        ELSE IF req.token.id \in DOMAIN byNonce
        THEN LET o == byNonce[req.token.id]
             IN  [username |-> info[o].username,
                  info |-> [info EXCEPT ![o].lastContact = t],
                  fault |-> FALSE]
        ELSE reject

\* Authorize refreshing every session instead of the one the cookie names.
Cookie_Authorize_refreshesAll(req, byNonce, info, t, requireXsrf) ==
    LET reject == [username |-> "", info |-> info, fault |-> FALSE]
    IN  IF requireXsrf /\ ~VerifyXsrfHeader(req) THEN reject
        ELSE IF ~req.token.present THEN reject
        ELSE IF NilDeref(req.token) THEN [reject EXCEPT !.fault = TRUE]
        ELSE IF req.token.len = 0 THEN reject
        ELSE IF req.token.len # nonceLen THEN reject
        ELSE IF req.token.id \in DOMAIN byNonce
        THEN [username |-> info[byNonce[req.token.id]].username,
              info |-> [o \in DOMAIN info |-> [info[o] EXCEPT !.lastContact = t]],
              fault |-> FALSE]
        ELSE reject

\* Cookie.Authorize at time t: the username returned and the records after
\* it.  err != nil || token.Value == "" reads token.Value only when err is
\* nil; fault is whether the call panicked.
Cookie_Authorize(req, byNonce, info, t, requireXsrf) ==
    LET reject == [username |-> "", info |-> info, fault |-> FALSE]
    IN  IF requireXsrf /\ ~VerifyXsrfHeader(req) THEN reject
        ELSE IF ~req.token.present THEN reject
        ELSE IF NilDeref(req.token) THEN [reject EXCEPT !.fault = TRUE]
        ELSE IF req.token.len = 0 THEN reject
        ELSE IF req.token.len # nonceLen THEN reject
        ELSE IF req.token.id \in DOMAIN byNonce
        THEN LET o == byNonce[req.token.id]
             IN  [username |-> info[o].username,
                  info |-> [info EXCEPT ![o].lastContact = t],
                  fault |-> FALSE]
        ELSE reject

Cookie_createSession_alwaysInserts(username, password, rndOk, nonce, byNonce, byUser, info, t) ==
    IF ~CookieAuth(username, password)
    THEN [nonce |-> 0, err |-> "ErrBadUsernameOrPassword",
          byNonce |-> byNonce, byUser |-> byUser, info |-> info]
    ELSE IF ~rndOk
    THEN [nonce |-> 0, err |-> "rand", byNonce |-> byNonce, byUser |-> byUser,
          info |-> info]
    ELSE LET ci == [username |-> username, lastContact |-> t, nonce |-> nonce]
         IN  [nonce |-> nonce, err |-> "",
              byNonce |-> [k \in DOMAIN byNonce \union {nonce} |->
                              IF k = nonce THEN nonce ELSE byNonce[k]],
              byUser |-> [u \in DOMAIN byUser \union {username} |->
                             IF u = username THEN nonce ELSE byUser[u]],
              info |-> [o \in DOMAIN info \union {nonce} |->
                           IF o = nonce THEN ci ELSE info[o]]]

Cookie_createSession_lookupBeforeAuth(username, password, rndOk, nonce, byNonce, byUser, info, t) ==
    IF username \in DOMAIN byUser
    THEN LET o == byUser[username]
         IN  [nonce |-> info[o].nonce, err |-> "",
              byNonce |-> byNonce, byUser |-> byUser,
              info |-> [info EXCEPT ![o].lastContact = t]]
    ELSE Cookie_createSession_alwaysInserts(username, password, rndOk, nonce,
                                            byNonce, byUser, info, t)

Cookie_createSession_lookupBeforeNonce(username, password, rndOk, nonce, byNonce, byUser, info, t) ==
    IF ~CookieAuth(username, password)
    THEN [nonce |-> 0, err |-> "ErrBadUsernameOrPassword",
          byNonce |-> byNonce, byUser |-> byUser, info |-> info]
    ELSE Cookie_createSession_lookupBeforeAuth(username, password, rndOk, nonce,
                                               byNonce, byUser, info, t)

\* createSession returning the existing session without refreshing it.
Cookie_createSession_noRefresh(username, password, rndOk, nonce, byNonce, byUser, info, t) ==
    IF ~CookieAuth(username, password)
    THEN [nonce |-> 0, err |-> "ErrBadUsernameOrPassword",
          byNonce |-> byNonce, byUser |-> byUser, info |-> info]
    ELSE IF ~rndOk
    THEN [nonce |-> 0, err |-> "rand", byNonce |-> byNonce, byUser |-> byUser,
          info |-> info]
    ELSE IF username \in DOMAIN byUser
    THEN [nonce |-> info[byUser[username]].nonce, err |-> "",
          byNonce |-> byNonce, byUser |-> byUser, info |-> info]
    ELSE LET ci == [username |-> username, lastContact |-> t, nonce |-> nonce]
         IN  [nonce |-> nonce, err |-> "",
              byNonce |-> [k \in DOMAIN byNonce \union {nonce} |->
                              IF k = nonce THEN nonce ELSE byNonce[k]],
              byUser |-> [u \in DOMAIN byUser \union {username} |->
                             IF u = username THEN nonce ELSE byUser[u]],
              info |-> [o \in DOMAIN info \union {nonce} |->
                           IF o = nonce THEN ci ELSE info[o]]]

\* Cookie.createSession at time t; nonce is the fresh value createNonce
\* returns when rndOk.  The new record is referred to by its nonce.
Cookie_createSession(username, password, rndOk, nonce, byNonce, byUser, info, t) ==
    IF ~CookieAuth(username, password)
    THEN [nonce |-> 0, err |-> "ErrBadUsernameOrPassword",
          byNonce |-> byNonce, byUser |-> byUser, info |-> info]
    ELSE IF ~rndOk
    THEN [nonce |-> 0, err |-> "rand", byNonce |-> byNonce, byUser |-> byUser,
          info |-> info]
    ELSE IF username \in DOMAIN byUser
    THEN LET o == byUser[username]
         IN  [nonce |-> info[o].nonce, err |-> "",
              byNonce |-> byNonce, byUser |-> byUser,
              info |-> [info EXCEPT ![o].lastContact = t]]
    ELSE LET ci == [username |-> username, lastContact |-> t, nonce |-> nonce]
         IN  [nonce |-> nonce, err |-> "",
              byNonce |-> [k \in DOMAIN byNonce \union {nonce} |->
                              IF k = nonce THEN nonce ELSE byNonce[k]],
              byUser |-> [u \in DOMAIN byUser \union {username} |->
                             IF u = username THEN nonce ELSE byUser[u]],
              info |-> [o \in DOMAIN info \union {nonce} |->
                           IF o = nonce THEN ci ELSE info[o]]]

Cookie_destroySession_userOnly(nonce, byNonce, byUser, info) ==
    IF nonce \in DOMAIN byNonce
    THEN [byNonce |-> byNonce,
          byUser  |-> Remove(byUser, info[byNonce[nonce]].username)]
    ELSE [byNonce |-> byNonce, byUser |-> byUser]

Cookie_destroySession_nonceOnly(nonce, byNonce, byUser, info) ==
    IF nonce \in DOMAIN byNonce
    THEN [byNonce |-> Remove(byNonce, nonce), byUser |-> byUser]
    ELSE [byNonce |-> byNonce, byUser |-> byUser]

\* Cookie.destroySession.
Cookie_destroySession(nonce, byNonce, byUser, info) ==
    IF nonce \in DOMAIN byNonce
    THEN [byNonce |-> Remove(byNonce, nonce),
          byUser  |-> Remove(byUser, info[byNonce[nonce]].username)]
    ELSE [byNonce |-> byNonce, byUser |-> byUser]

\* ------------------------------------------------------------ requests
NcStrings == {<<"0">>, <<"1">>, <<"2">>, <<"g">>}

\* A request whose Authorization header was written by a client that
\* hashed the password guess pw over the parameters it sends.
DigestRequest(scheme, opq, alg, qop, uri, username, pw, nonce, nc) ==
    [scheme |-> scheme, opaque |-> opq, algorithm |-> alg, qop |-> qop,
     uri |-> uri, username |-> username, nonce |-> nonce, nc |-> nc,
     cnonce |-> cnonce, method |-> "GET", path |-> "/digest/",
     response |-> HA3(username, pw, "GET", uri, nonce, nc, cnonce, qop)]

\* A request without Authorization header.
NoHeader ==
    [scheme |-> "", opaque |-> "", algorithm |-> "", qop |-> "", uri |-> "",
     username |-> "", nonce |-> 0, nc |-> << >>, cnonce |-> "",
     method |-> "GET", path |-> "/digest/", response |-> << >>]

\* Well-formed headers with the right password: any nonce (0 was never
\* issued) and any counter string.
CoreRequests ==
    {DigestRequest("Digest", opaque, "MD5", "auth", "/digest/", "user1", "user1", n, nc) :
        n \in 0..MaxNonces, nc \in NcStrings}

\* What a header can get wrong, field by field; the first value is the right one.
HeaderChoices ==
    {"Digest", "Basic"} \X {opaque, "bad"} \X {"MD5", ""} \X {"auth", "auth-int"}
    \X {"/digest/", "/other"} \X {"user1", "", "ghost"} \X {"user1", "bad"}

Defects(c) ==
    Cardinality({i \in 1..7 :
        c[i] # <<"Digest", opaque, "MD5", "auth", "/digest/", "user1", "user1">>[i]})

\* Headers for nonce 1 and counter 1 with exactly one field wrong, and the
\* header whose response was hashed over the request path while its uri
\* parameter names another path.
DefectiveRequests ==
    {DigestRequest(c[1], c[2], c[3], c[4], c[5], c[6], c[7], 1, <<"1">>) :
        c \in {d \in HeaderChoices : Defects(d) = 1}}
    \union
    {[DigestRequest("Digest", opaque, "MD5", "auth", "/digest/", "user1", "user1", 1, <<"1">>)
         EXCEPT !.uri = "/other"]}

Requests == {NoHeader} \union CoreRequests \union DefectiveRequests

NoHdr == [realm |-> "", nonce |-> 0, opaque |-> "", algorithm |-> "", qop |-> ""]

\* ------------------------------------------------------------ actions
DigestCall(op, req, result, status, hdr) ==
    [op |-> op, req |-> req, result |-> result, status |-> status, hdr |-> hdr]

NoRequest == [xsrf |-> NoXsrf, token |-> NoCookie]

NoSetCookie == [set |-> FALSE, value |-> 0, httpOnly |-> FALSE, expired |-> FALSE]

CookieCall(op, username, password, req, result, nonce, err) ==
    [op |-> op, username |-> username, password |-> password, req |-> req,
     result |-> result, nonce |-> nonce, err |-> err, method |-> "",
     status |-> 0, location |-> "", body |-> FALSE, setCookie |-> NoSetCookie,
     rndOk |-> TRUE]

\* NewCookie: empty maps, nil heap.
CookieInit ==
    /\ clientsByNonce = << >>
    /\ clientsByUser = << >>
    /\ cookieLru = << >>
    /\ cInfo = << >>
    /\ cNonces = 0
    /\ cLast = CookieCall("Init", "", "", NoRequest, "", 0, "")
    /\ sessions = [k \in 1..MaxSessions |-> [user |-> "", state |-> "none"]]

DigestInit ==
    /\ now = 0
    /\ clients = << >>
    /\ lru = << >>
    /\ dNonces = 0
    /\ dLast = DigestCall("Init", NoHeader, "", 0, NoHdr)
    /\ accepted = [n \in Nonces |-> {}]
    /\ ascended = [n \in Nonces |-> {}]

\* ------------------------------------------------------------ Basic policy
\* A header value is a sequence of characters; a decoded token is a sequence
\* of bytes (the characters used here are u = 117, p = 112 and : = 58).

\* The alphabet of base64.StdEncoding.
encodeStd ==
    <<"A", "B", "C", "D", "E", "F", "G", "H", "I", "J", "K", "L", "M", "N", "O", "P",
       "Q", "R", "S", "T", "U", "V", "W", "X", "Y", "Z", "a", "b", "c", "d", "e", "f",
       "g", "h", "i", "j", "k", "l", "m", "n", "o", "p", "q", "r", "s", "t", "u", "v",
       "w", "x", "y", "z", "0", "1", "2", "3", "4", "5", "6", "7", "8", "9", "+", "/">>

IsBase64(c) == \E i \in 1..64 : encodeStd[i] = c

Base64Value(c) == (CHOOSE i \in 1..64 : encodeStd[i] = c) - 1

\* base64.StdEncoding.DecodeString: quanta of four characters, padding only
\* in the last quantum, any other character or length is a corrupt input.
RECURSIVE DecodeString(_)
DecodeString(s) ==
    IF Len(s) = 0 THEN [ok |-> TRUE, bytes |-> << >>]
    ELSE IF Len(s) < 4 THEN [ok |-> FALSE, bytes |-> << >>]
    ELSE LET last == Len(s) = 4
             v(i) == Base64Value(s[i])
         IN  IF \A i \in 1..4 : IsBase64(s[i])
             THEN LET rest == DecodeString(SubSeq(s, 5, Len(s)))
                      val  == v(1) * 262144 + v(2) * 4096 + v(3) * 64 + v(4)
                  IN  [ok |-> rest.ok,
                       bytes |-> IF rest.ok
                                 THEN <<val \div 65536, (val \div 256) % 256, val % 256>>
                                      \o rest.bytes
                                 ELSE << >>]
             ELSE IF last /\ IsBase64(s[1]) /\ IsBase64(s[2]) /\ IsBase64(s[3])
                          /\ s[4] = "="
             THEN LET val == v(1) * 4096 + v(2) * 64 + v(3)
                  IN  [ok |-> TRUE, bytes |-> <<val \div 1024, (val \div 4) % 256>>]
             ELSE IF last /\ IsBase64(s[1]) /\ IsBase64(s[2])
                          /\ s[3] = "=" /\ s[4] = "="
             THEN [ok |-> TRUE, bytes |-> <<(v(1) * 64 + v(2)) \div 16>>]
             ELSE [ok |-> FALSE, bytes |-> << >>]

\* base64.StdEncoding.EncodeToString, as the HTTP client applies it to the
\* user information of the URL.
RECURSIVE EncodeToString(_)
EncodeToString(b) ==
    LET e(x) == encodeStd[x + 1]
    IN  IF Len(b) = 0 THEN << >>
        ELSE IF Len(b) = 1
        THEN <<e(b[1] \div 4), e((b[1] % 4) * 16), "=", "=">>
        ELSE IF Len(b) = 2
        THEN <<e(b[1] \div 4), e((b[1] % 4) * 16 + b[2] \div 16),
               e((b[2] % 16) * 4), "=">>
        ELSE <<e(b[1] \div 4), e((b[1] % 4) * 16 + b[2] \div 16),
               e((b[2] % 16) * 4 + b[3] \div 64), e(b[3] % 64)>>
             \o EncodeToString(SubSeq(b, 4, Len(b)))

\* strings.IndexRune: the (0-based) index of the first occurrence, or -1.
IndexRune(s, r) ==
    IF \E i \in 1..Len(s) : s[i] = r
    THEN (CHOOSE i \in 1..Len(s) : s[i] = r /\ \A j \in 1..(i - 1) : s[j] # r) - 1
    ELSE -1

\* The authenticator of the Basic tests.
BasicAuth(username, password) == username = password

BasicScheme == <<"B", "a", "s", "i", "c">>

NoCredentials == [username |-> << >>, password |-> << >>]

\* Basic.Authorize accepting whatever credentials the token carries.
Basic_Authorize_noAuth(token) ==
    IF token = << >> THEN << >>
    ELSE LET ndx == IndexRune(token, " ")
         IN  IF ndx < 1 \/ SubSeq(token, 1, ndx) # BasicScheme THEN << >>
             ELSE LET d == DecodeString(SubSeq(token, ndx + 2, Len(token)))
                      n == IndexRune(d.bytes, 58)
                  IN  IF ~d.ok THEN << >>
                      ELSE IF n < 1 THEN << >>
                      ELSE SubSeq(d.bytes, 1, n)

\* Basic.Authorize on the value of the Authorization header.
Basic_Authorize(token) ==
    IF token = << >> THEN << >>
    ELSE LET ndx == IndexRune(token, " ")
         IN  IF ndx < 1 \/ SubSeq(token, 1, ndx) # BasicScheme THEN << >>
             ELSE LET d == DecodeString(SubSeq(token, ndx + 2, Len(token)))
                      n == IndexRune(d.bytes, 58)
                  IN  IF ~d.ok THEN << >>
                      ELSE IF n < 1 THEN << >>
                      ELSE IF ~BasicAuth(SubSeq(d.bytes, 1, n),
                                         SubSeq(d.bytes, n + 2, Len(d.bytes)))
                      THEN << >>
                      ELSE SubSeq(d.bytes, 1, n)

\* Basic.ParseToken.
Basic_ParseToken(token) ==
    IF token = << >> THEN NoCredentials
    ELSE LET ndx == IndexRune(token, " ")
         IN  IF ndx < 1 \/ SubSeq(token, 1, ndx) # BasicScheme THEN NoCredentials
             ELSE LET d == DecodeString(SubSeq(token, ndx + 2, Len(token)))
                      n == IndexRune(d.bytes, 58)
                  IN  IF ~d.ok THEN NoCredentials
                      ELSE IF n < 1 THEN NoCredentials
                      ELSE [username |-> SubSeq(d.bytes, 1, n),
                            password |-> SubSeq(d.bytes, n + 2, Len(d.bytes))]

BasicCall(op, token, username, password, status, realm) ==
    [op |-> op, token |-> token, username |-> username, password |-> password,
     status |-> status, realm |-> realm]

\* NewBasic.
BasicInit == bLast = BasicCall("Init", << >>, << >>, << >>, 0, "")

\* ---- the hash chain of Digest.Authorize on text: md5 as crypto/md5
\* ---- computes it, on 32-bit words kept as <<high, low>> 16-bit halves.

\* The printable characters, in the order of their codes 32..126.
ascii ==
    <<" ", "!", "quote", "#", "$", "%", "&", "'", "(", ")", "*", "+", ",", "-", ".", "/",
      "0", "1", "2", "3", "4", "5", "6", "7", "8", "9", ":", ";", "<", "=", ">", "?",
      "@", "A", "B", "C", "D", "E", "F", "G", "H", "I", "J", "K", "L", "M", "N", "O",
      "P", "Q", "R", "S", "T", "U", "V", "W", "X", "Y", "Z", "[", "backslash", "]", "^", "_",
      "backquote", "a", "b", "c", "d", "e", "f", "g", "h", "i", "j", "k", "l", "m", "n", "o",
      "p", "q", "r", "s", "t", "u", "v", "w", "x", "y", "z", "{", "|", "}", "~">>

\* The bytes of a text.
Bytes(s) == [i \in 1..Len(s) |-> (CHOOSE k \in 1..Len(ascii) : ascii[k] = s[i]) + 31]

RECURSIVE BitAnd(_, _)
BitAnd(a, b) ==
    IF a = 0 \/ b = 0 THEN 0
    ELSE ((a % 2) * (b % 2)) + 2 * BitAnd(a \div 2, b \div 2)

\* Addition modulo 2^32.
WAdd(x, y) ==
    LET lo == x[2] + y[2]
    IN  <<(x[1] + y[1] + (lo \div 65536)) % 65536, lo % 65536>>

\* The per-round shift amounts and the constants floor(2^32 * |sin(i + 1)|).
md5_shift ==
    <<7, 12, 17, 22, 7, 12, 17, 22, 7, 12, 17, 22, 7, 12, 17, 22,
      5, 9, 14, 20, 5, 9, 14, 20, 5, 9, 14, 20, 5, 9, 14, 20,
      4, 11, 16, 23, 4, 11, 16, 23, 4, 11, 16, 23, 4, 11, 16, 23,
      6, 10, 15, 21, 6, 10, 15, 21, 6, 10, 15, 21, 6, 10, 15, 21>>

md5_table ==
    <<<<55146, 42104>>, <<59591, 46934>>, <<9248, 28891>>, <<49597, 52974>>,
      <<62844, 4015>>, <<18311, 50730>>, <<43056, 17939>>, <<64838, 38145>>,
      <<27008, 39128>>, <<35652, 63407>>, <<65535, 23473>>, <<35164, 55230>>,
      <<27536, 4386>>, <<64920, 29075>>, <<42617, 17294>>, <<18868, 2081>>,
      <<63006, 9570>>, <<49216, 45888>>, <<9822, 23121>>, <<59830, 51114>>,
      <<54831, 4189>>, <<580, 5203>>, <<55457, 59009>>, <<59347, 64456>>,
      <<8673, 52710>>, <<49975, 2006>>, <<62677, 3463>>, <<17754, 5357>>,
      <<43491, 59653>>, <<64751, 41976>>, <<26479, 729>>, <<36138, 19594>>,
      <<65530, 14658>>, <<34673, 63105>>, <<28061, 24866>>, <<64997, 14348>>,
      <<42174, 59972>>, <<19422, 53161>>, <<63163, 19296>>, <<48831, 48240>>,
      <<10395, 32454>>, <<60065, 10234>>, <<54511, 12421>>, <<1160, 7429>>,
      <<55764, 53305>>, <<59099, 39397>>, <<8098, 31992>>, <<50348, 22117>>,
      <<62505, 8772>>, <<17194, 65431>>, <<43924, 9127>>, <<64659, 41017>>,
      <<25947, 22979>>, <<36620, 52370>>, <<65519, 62589>>, <<34180, 24017>>,
      <<28584, 32335>>, <<65068, 59104>>, <<41729, 17172>>, <<19976, 4513>>,
      <<63315, 32386>>, <<48442, 62005>>, <<10967, 53947>>, <<60294, 54161>>>>

\* The message with the bit 1, zeros and its length in bits appended.
md5_pad(msg) ==
    LET n    == Len(msg)
        bits == 8 * n
    IN  msg \o <<128>> \o [i \in 1..((119 - (n % 64)) % 64) |-> 0]
            \o <<bits % 256, (bits \div 256) % 256, bits \div 65536, 0, 0, 0, 0, 0>>

\* Round i (0..63) of block k of the padded message p on the chaining value
\* v = <<a, b, c, d>>; word j of the block is read little-endian.
md5_round(v, i, p, k) ==
    LET and(x, y) == <<BitAnd(x[1], y[1]), BitAnd(x[2], y[2])>>
        or(x, y)  == <<x[1] + y[1] - BitAnd(x[1], y[1]),
                       x[2] + y[2] - BitAnd(x[2], y[2])>>
        xor(x, y) == <<x[1] + y[1] - 2 * BitAnd(x[1], y[1]),
                       x[2] + y[2] - 2 * BitAnd(x[2], y[2])>>
        not(x)    == <<65535 - x[1], 65535 - x[2]>>
        rotl(x, n) ==
            LET y == IF n >= 16 THEN <<x[2], x[1]>> ELSE x
                r == n % 16
            IN  IF r = 0 THEN y
                ELSE <<((y[1] * 2^r) % 65536) + (y[2] \div 2^(16 - r)),
                       ((y[2] * 2^r) % 65536) + (y[1] \div 2^(16 - r))>>
        word(j)   == LET o == 64 * k + 4 * j
                     IN  <<p[o + 4] * 256 + p[o + 3], p[o + 2] * 256 + p[o + 1]>>
        a == v[1]  b == v[2]  c == v[3]  d == v[4]
        f == IF i < 16 THEN or(and(b, c), and(not(b), d))
             ELSE IF i < 32 THEN or(and(d, b), and(not(d), c))
             ELSE IF i < 48 THEN xor(xor(b, c), d)
             ELSE xor(c, or(b, not(d)))
        g == IF i < 16 THEN i
             ELSE IF i < 32 THEN (5 * i + 1) % 16
             ELSE IF i < 48 THEN (3 * i + 5) % 16
             ELSE (7 * i) % 16
        t == WAdd(WAdd(WAdd(f, a), md5_table[i + 1]), word(g))
    IN  <<d, WAdd(b, rotl(t, md5_shift[i + 1])), b, c>>

\* Rounds i..j-1 in order, the range halved at each level.
RECURSIVE md5_rounds(_, _, _, _, _)
md5_rounds(v, i, j, p, k) ==
    IF j = i + 1 THEN md5_round(v, i, p, k)
    ELSE LET m == (i + j) \div 2
             w == md5_rounds(v, i, m, p, k)
         IN  IF Len(w) = 4 THEN md5_rounds(w, m, j, p, k) ELSE v

RECURSIVE md5_blocks(_, _, _)
md5_blocks(v, p, k) ==
    IF 64 * k >= Len(p) THEN v
    ELSE LET r == md5_rounds(v, 0, 64, p, k)
         IN  md5_blocks(<<WAdd(v[1], r[1]), WAdd(v[2], r[2]),
                          WAdd(v[3], r[3]), WAdd(v[4], r[4])>>, p, k + 1)

\* md5: the 16 bytes of the sum of a message, from the initial chaining
\* value 67452301 efcdab89 98badcfe 10325476.
md5_Sum(msg) ==
    LET init == <<<<26437, 8961>>, <<61389, 43913>>, <<39098, 56574>>, <<4146, 21622>>>>
        v    == md5_blocks(init, md5_pad(msg), 0)
        le(w) == <<w[2] % 256, w[2] \div 256, w[1] % 256, w[1] \div 256>>
    IN  le(v[1]) \o le(v[2]) \o le(v[3]) \o le(v[4])

\* fmt.Sprintf("%x", ...): two lower-case hexadecimal digits per byte.
HexText(b) ==
    LET digits == <<"0", "1", "2", "3", "4", "5", "6", "7",
                    "8", "9", "a", "b", "c", "d", "e", "f">>
    IN  [i \in 1..(2 * Len(b)) |->
            IF i % 2 = 1 THEN digits[(b[(i + 1) \div 2] \div 16) + 1]
            ELSE digits[(b[i \div 2] % 16) + 1]]

\* calcHash on text: Reset, Write the data, print the sum in hexadecimal.
\* (calcHash above stands for this function where only its being a function
\* of the data and one-to-one matters.)
calcHashText(data) == HexText(md5_Sum(Bytes(data)))

\* The parameters one response is computed from.
HashInput(username, realm, password, method, path, nonce, nc, cn, qop) ==
    [username |-> username, realm |-> realm, password |-> password,
     method |-> method, path |-> path, nonce |-> nonce, nc |-> nc,
     cnonce |-> cn, qop |-> qop]

\* ha1 := calcHash(username + ":" + realm + ":" + password)
ha1Text(in) ==
    calcHashText(in.username \o <<":">> \o in.realm \o <<":">> \o in.password)

\* ha2 := calcHash(method + ":" + path)
ha2Text(in) == calcHashText(in.method \o <<":">> \o in.path)

\* The response of RFC 2069, without nc, cnonce and qop.
ha3Text_noQop(ha1, in, ha2) ==
    calcHashText(ha1 \o <<":">> \o in.nonce \o <<":">> \o ha2)

\* ha3 := calcHash(ha1:nonce:nc:cnonce:qop:ha2)
ha3Text(ha1, in, ha2) ==
    calcHashText(ha1 \o <<":">> \o in.nonce \o <<":">> \o in.nc \o <<":">>
                 \o in.cnonce \o <<":">> \o in.qop \o <<":">> \o ha2)

HashCall(op, in, ha1, ha2, response) ==
    [op |-> op, input |-> in, ha1 |-> ha1, ha2 |-> ha2, response |-> response]

\* No response is being computed.
HashInit ==
    hLast = HashCall("Init",
                     HashInput(<< >>, << >>, << >>, << >>, << >>, << >>, << >>, << >>, << >>),
                     << >>, << >>, << >>)

\* ------------------------------------------------------------ eviction loop
\* The state of one run of evictLeastRecentlySeen: the heap array, the
\* records its pointers refer to, the maps, the residence and the clock read
\* before the loop, the iterations made and the entries the heap started with.
EvictCall(op, policy, pq, info, byNonce, byUser, residence, t, iterations) ==
    [op |-> op, policy |-> policy, lru |-> pq, info |-> info,
     byNonce |-> byNonce, byUser |-> byUser, residence |-> residence,
     now |-> t, iterations |-> iterations, entries |-> Len(pq) + iterations]

\* The loop condition.  MinValue indexes pq[n-1]: evaluated on an empty heap
\* it is an index out of range, which the len(a.lru) > 0 conjunct prevents.
evictCondition_noLenCheck(pq, info, residence, t) ==
    IF Len(pq) = 0 THEN [fault |-> TRUE, go |-> FALSE]
    ELSE [fault |-> FALSE, go |-> MinValue(pq, info) + residence <= t]

evictCondition(pq, info, residence, t) ==
    IF Len(pq) > 0
    THEN [fault |-> FALSE, go |-> MinValue(pq, info) + residence <= t]
    ELSE [fault |-> FALSE, go |-> FALSE]

\* The loop body: heap.Pop, then delete from the map (Digest) or from both
\* maps (Cookie); delete of an absent key does nothing.
evictBody(e) ==
    LET p      == heapPop(e.lru, lastContactOf(e.info))
        client == e.info[p.ret]
    IN  [e EXCEPT !.op = "Loop",
                  !.lru = p.pq,
                  !.byNonce = Remove(@, client.nonce),
                  !.byUser = IF e.policy = "Cookie" THEN Remove(@, client.username)
                             ELSE @,
                  !.iterations = @ + 1]

EvictInit == eLast = EvictCall("Init", "", << >>, << >>, << >>, << >>, 0, 0, 0)

\* ------------------------------------------------------------ size-bounded Digest
\* The Digest whose cache is trimmed by size.  Its evictLeastRecentlySeen
\* copies the records to a table, sorts it by lastContact (sort.Sort is not
\* stable and the map is ranged over in no fixed order, so records with equal
\* lastContact come in any order) and deletes table[:2*ClientCacheDelta]; the
\* slice expression panics when the table is shorter than that.  The result
\* is the set of caches the call can leave.
Sized_evictLeastRecentlySeen(cl, delta) ==
    IF 2 * delta > Cardinality(DOMAIN cl)
    THEN {[fault |-> TRUE, clients |-> cl]}
    ELSE {[fault |-> FALSE, clients |-> [n \in DOMAIN cl \ R |-> cl[n]]] :
            R \in {S \in SUBSET DOMAIN cl :
                      /\ Cardinality(S) = 2 * delta
                      /\ \A r \in S, k \in DOMAIN cl \ S :
                            cl[r].lastContact <= cl[k].lastContact}}

\* NotifyAuthRequired of the size-bounded Digest.
Sized_NotifyAuthRequired(cl, size, delta, t, rndOk, nonce) ==
    LET evs == IF Cardinality(DOMAIN cl) > size + delta
               THEN Sized_evictLeastRecentlySeen(cl, delta)
               ELSE {[fault |-> FALSE, clients |-> cl]}
        ci  == [numContacts |-> 0, lastContact |-> t, nonce |-> nonce]
    IN  {IF ev.fault
         THEN [fault |-> TRUE, clients |-> ev.clients, status |-> 0, hdr |-> NoHdr]
         ELSE IF ~rndOk
         THEN [fault |-> FALSE, clients |-> ev.clients,
               status |-> StatusInternalServerError, hdr |-> NoHdr]
         ELSE [fault |-> FALSE,
               clients |-> [n \in DOMAIN ev.clients \union {nonce} |->
                               IF n = nonce THEN ci ELSE ev.clients[n]],
               status |-> StatusUnauthorized,
               hdr |-> [realm |-> Realm, nonce |-> nonce, opaque |-> opaque,
                        algorithm |-> "MD5", qop |-> "auth"]] : ev \in evs}

\* NewDigest sets the defaults; the fields are exported and set by the caller.
SizedInit == ClientCacheSize = 0 /\ ClientCacheDelta = 0

\* md5.New(): nothing written.
HasherInit == md5 = << >>

\* ------------------------------------------------------------ createNonce
\* createNonce returning the encoding of the first nine bytes only.
createNonce_shortBuffer(buffer, rndOk) ==
    IF ~rndOk THEN [nonce |-> << >>, err |-> "rand"]
    ELSE [nonce |-> EncodeToString(SubSeq(buffer, 1, 9)), err |-> ""]

\* createNonce: rand.Read fills the buffer or fails; the buffer is returned
\* in base64.
createNonce(buffer, rndOk) ==
    IF ~rndOk THEN [nonce |-> << >>, err |-> "rand"]
    ELSE [nonce |-> EncodeToString(buffer), err |-> ""]

NonceCall(op, buffer, nonce, err) ==
    [op |-> op, buffer |-> buffer, nonce |-> nonce, err |-> err]

NonceInit == nLast = NonceCall("Init", << >>, << >>, "")

\* The goroutines that serve requests on the shared policy instance.
Workers == 1..MaxWorkers

NoLocal == [op |-> "", req |-> NoHeader, username |-> "", nonce |-> 0, found |-> 0]

\* No call is in progress.
WorkersIdle ==
    /\ pc = [w \in Workers |-> "idle"]
    /\ local = [w \in Workers |-> NoLocal]
    /\ mutex = 0

Init ==
    DigestInit /\ RequireXsrfHeader = FALSE /\ CookieInit /\ WorkersIdle /\ BasicInit
    /\ HashInit /\ EvictInit /\ NonceInit /\ SizedInit /\ HasherInit

\* Time passes between two calls.
DigestTick ==
    /\ now < MaxTime
    /\ now' = now + 1
    /\ dLast' = DigestCall("Tick", NoHeader, "", 0, NoHdr)
    /\ UNCHANGED <<clients, lru, dNonces>>

\* One call of Digest.Authorize.
DigestAuthorize(req) ==
    LET r == Digest_Authorize(req, clients, now)
    IN  /\ clients' = r.clients
        /\ dLast' = DigestCall("Authorize", req, r.username, 0, NoHdr)
        /\ UNCHANGED <<now, lru, dNonces>>

\* One call of Digest.NotifyAuthRequired; at most maxN nonces are drawn.
DigestNotifyAuthRequired(rndOk, maxN) ==
    /\ rndOk => dNonces < maxN
    /\ LET r == Digest_NotifyAuthRequired(lru, clients, now, rndOk, dNonces + 1)
       IN  /\ clients' = r.clients
           /\ lru' = r.lru
           /\ dNonces' = IF rndOk THEN dNonces + 1 ELSE dNonces
           /\ dLast' = DigestCall("NotifyAuthRequired", NoHeader, "", r.status, r.hdr)
    /\ UNCHANGED now

\* The history of accepted counters, written by the observer of a call.
Observe ==
    LET n == dLast'.req.nonce
        c == ParseUint(dLast'.req.nc).value
    IN  IF dLast'.op = "Authorize" /\ dLast'.result # ""
        THEN /\ accepted' = [accepted EXCEPT ![n] = @ \union {c}]
             /\ ascended' = IF \E c1 \in accepted[n] : c1 < c
                            THEN [ascended EXCEPT ![n] = @ \union {c}]
                            ELSE ascended
        ELSE UNCHANGED hvars

\* ---- the Digest policy
Tick == DigestTick /\ UNCHANGED hvars /\ UNCHANGED cvars /\ UNCHANGED wvars /\ UNCHANGED bvars

Authorize(req) == DigestAuthorize(req) /\ UNCHANGED hvars /\ UNCHANGED cvars /\ UNCHANGED wvars /\ UNCHANGED bvars

NotifyAuthRequired(rndOk) ==
    /\ DigestNotifyAuthRequired(rndOk, MaxNonces)
    /\ UNCHANGED hvars /\ UNCHANGED cvars /\ UNCHANGED wvars /\ UNCHANGED bvars

Next ==
    \/ Tick
    \/ \E req \in Requests : Authorize(req)
    \/ \E rndOk \in BOOLEAN : NotifyAuthRequired(rndOk)

Spec == Init /\ [][Next]_vars

\* ---- the Digest policy with the history of accepted counters
ReplayTick == DigestTick /\ Observe /\ UNCHANGED cvars /\ UNCHANGED wvars /\ UNCHANGED bvars

ReplayAuthorize(req) == DigestAuthorize(req) /\ Observe /\ UNCHANGED cvars /\ UNCHANGED wvars /\ UNCHANGED bvars

ReplayNotifyAuthRequired(rndOk) ==
    /\ DigestNotifyAuthRequired(rndOk, MaxReplayNonces)
    /\ Observe /\ UNCHANGED cvars /\ UNCHANGED wvars /\ UNCHANGED bvars

NextReplay ==
    \/ ReplayTick
    \/ \E req \in CoreRequests \union {NoHeader} : ReplayAuthorize(req)
    \/ \E rndOk \in BOOLEAN : ReplayNotifyAuthRequired(rndOk)

SpecReplay == Init /\ [][NextReplay]_vars

\* ---- the Cookie policy
LoginPage == "/login/"

Credentials ==
    {<<"user1", "user1">>, <<"user2", "user2">>, <<"", "">>, <<"user1", "user2">>}

\* The cookie values a client can send: none, empty, too short, a 16-character
\* string that was never handed out (0), or a nonce that was.
Tokens == {NoCookie, EmptyCookie, ShortCookie} \union {Token(k) : k \in 0..cNonces}

Ended(state, ks) ==
    [k \in DOMAIN sessions |->
        IF k \in ks /\ sessions[k].state = "active"
        THEN [sessions[k] EXCEPT !.state = state] ELSE sessions[k]]

CookieTick ==
    /\ now < MaxTime
    /\ now' = now + 1
    /\ cLast' = CookieCall("Tick", "", "", NoRequest, "", 0, "")
    /\ UNCHANGED <<RequireXsrfHeader, clientsByNonce, clientsByUser, cookieLru,
                   cInfo, cNonces, sessions>>
    /\ UNCHANGED dvars /\ UNCHANGED wvars /\ UNCHANGED bvars

\* One call of Cookie.Authorize.
CookieAuthorize(req) ==
    LET r == Cookie_Authorize(req, clientsByNonce, cInfo, now, RequireXsrfHeader)
    IN  /\ cInfo' = r.info
        /\ cLast' = CookieCall("Authorize", "", "", req, r.username, 0,
                                IF r.fault THEN "panic" ELSE "")
        /\ UNCHANGED <<now, RequireXsrfHeader, clientsByNonce, clientsByUser,
                       cookieLru, cNonces, sessions>>
        /\ UNCHANGED dvars /\ UNCHANGED wvars /\ UNCHANGED bvars

\* NotifyAuthRequired writing the anchor body whatever the method is.
CookieNotifyAuthRequired_bodyAlways(method) ==
    LET r == Cookie_evictLeastRecentlySeen(cookieLru, clientsByNonce,
                                           clientsByUser, cInfo, now)
    IN  /\ clientsByNonce' = r.byNonce
        /\ clientsByUser' = r.byUser
        /\ cookieLru' = r.lru
        /\ cInfo' = Live(r.byNonce, r.byUser, r.lru, cInfo)
        /\ sessions' = Ended("evicted", DOMAIN clientsByNonce \ DOMAIN r.byNonce)
        /\ cLast' = [CookieCall("NotifyAuthRequired", "", "", NoRequest, "", 0, "")
                        EXCEPT !.method = method,
                               !.status = StatusTemporaryRedirect,
                               !.location = LoginPage,
                               !.body = TRUE]
        /\ UNCHANGED <<now, RequireXsrfHeader, cNonces>>
        /\ UNCHANGED dvars /\ UNCHANGED wvars /\ UNCHANGED bvars

\* One call of Cookie.NotifyAuthRequired for a request with the given method.
CookieNotifyAuthRequired(method) ==
    LET r == Cookie_evictLeastRecentlySeen(cookieLru, clientsByNonce,
                                           clientsByUser, cInfo, now)
    IN  /\ clientsByNonce' = r.byNonce
        /\ clientsByUser' = r.byUser
        /\ cookieLru' = r.lru
        /\ cInfo' = Live(r.byNonce, r.byUser, r.lru, cInfo)
        /\ sessions' = Ended("evicted", DOMAIN clientsByNonce \ DOMAIN r.byNonce)
        /\ cLast' = [CookieCall("NotifyAuthRequired", "", "", NoRequest, "", 0, "")
                        EXCEPT !.method = method,
                               !.status = StatusTemporaryRedirect,
                               !.location = LoginPage,
                               !.body = (method = "GET")]
        /\ UNCHANGED <<now, RequireXsrfHeader, cNonces>>
        /\ UNCHANGED dvars /\ UNCHANGED wvars /\ UNCHANGED bvars

\* createSession and what Login adds to it: the cookie set on success.
CookieSession(op, username, password, rndOk) ==
    LET r == Cookie_createSession(username, password, rndOk, cNonces + 1,
                                  clientsByNonce, clientsByUser, cInfo, now)
    IN  /\ (r.err = "" /\ r.nonce = cNonces + 1) => cNonces < MaxSessions
        /\ clientsByNonce' = r.byNonce
        /\ clientsByUser' = r.byUser
        /\ cInfo' = r.info
        /\ cNonces' = IF r.err = "" /\ r.nonce = cNonces + 1
                      THEN cNonces + 1 ELSE cNonces
        /\ sessions' = IF r.err = "" /\ sessions[r.nonce].state = "none"
                       THEN [sessions EXCEPT ![r.nonce] =
                                [user |-> username, state |-> "active"]]
                       ELSE sessions
        /\ cLast' = [CookieCall(op, username, password, NoRequest, "", r.nonce, r.err)
                        EXCEPT !.rndOk = rndOk,
                               !.setCookie =
                            IF op = "Login" /\ r.err = ""
                            THEN [set |-> TRUE, value |-> r.nonce,
                                  httpOnly |-> TRUE, expired |-> FALSE]
                            ELSE NoSetCookie]
        /\ UNCHANGED <<now, RequireXsrfHeader, cookieLru>>
        /\ UNCHANGED dvars /\ UNCHANGED wvars /\ UNCHANGED bvars

CookieCreateSession(username, password, rndOk) ==
    CookieSession("createSession", username, password, rndOk)

CookieLogin(username, password, rndOk) ==
    CookieSession("Login", username, password, rndOk)

\* One call of Cookie.destroySession.
CookieDestroySession(nonce) ==
    LET r == Cookie_destroySession(nonce, clientsByNonce, clientsByUser, cInfo)
    IN  /\ clientsByNonce' = r.byNonce
        /\ clientsByUser' = r.byUser
        /\ cInfo' = Live(r.byNonce, r.byUser, cookieLru, cInfo)
        /\ sessions' = Ended("destroyed", {nonce})
        /\ cLast' = CookieCall("destroySession", "", "", NoRequest, "", nonce, "")
        /\ UNCHANGED <<now, RequireXsrfHeader, cookieLru, cNonces>>
        /\ UNCHANGED dvars /\ UNCHANGED wvars /\ UNCHANGED bvars

\* One call of Cookie.Logout.  Without the cookie r.Cookie returns a nil
\* token with an error, and the test err == nil || token.Value != "" reads
\* through the nil pointer: the call panics before anything is changed.
CookieLogout(req) ==
    IF ~req.token.present /\ NilDeref(req.token)
    THEN /\ cLast' = CookieCall("Logout", "", "", req, "", 0, "panic")
         /\ UNCHANGED <<now, RequireXsrfHeader, clientsByNonce, clientsByUser,
                        cookieLru, cInfo, cNonces, sessions>>
         /\ UNCHANGED dvars /\ UNCHANGED wvars /\ UNCHANGED bvars
    ELSE LET key == IF req.token.len = nonceLen THEN req.token.id ELSE 0
             r   == Cookie_destroySession(key, clientsByNonce, clientsByUser, cInfo)
         IN  /\ clientsByNonce' = r.byNonce
             /\ clientsByUser' = r.byUser
             /\ cInfo' = Live(r.byNonce, r.byUser, cookieLru, cInfo)
             /\ sessions' = Ended("destroyed", {key})
             /\ cLast' = [CookieCall("Logout", "", "", req, "", 0, "")
                             EXCEPT !.setCookie = [set |-> TRUE, value |-> 0,
                                                   httpOnly |-> FALSE,
                                                   expired |-> TRUE]]
             /\ UNCHANGED <<now, RequireXsrfHeader, cookieLru, cNonces>>
             /\ UNCHANGED dvars /\ UNCHANGED wvars /\ UNCHANGED bvars

NextCookie ==
    \/ CookieTick
    \/ \E xsrf \in XsrfHeaders, token \in Tokens :
          CookieAuthorize([xsrf |-> xsrf, token |-> token])
    \/ \E method \in {"GET", "POST"} : CookieNotifyAuthRequired(method)
    \/ \E c \in Credentials, rndOk \in BOOLEAN : CookieCreateSession(c[1], c[2], rndOk)
    \/ \E c \in Credentials, rndOk \in BOOLEAN : CookieLogin(c[1], c[2], rndOk)
    \/ \E nonce \in 0..cNonces : CookieDestroySession(nonce)
    \/ \E token \in Tokens : CookieLogout([xsrf |-> NoXsrf, token |-> token])

InitCookie ==
    DigestInit /\ RequireXsrfHeader \in BOOLEAN /\ CookieInit /\ WorkersIdle /\ BasicInit
    /\ HashInit /\ EvictInit /\ NonceInit /\ SizedInit /\ HasherInit

SpecCookie == InitCookie /\ [][NextCookie]_vars

\* ---- a server with one policy behind the Policy interface: either NewDigest
\* or NewCookie was called, and only the policy constructed serves calls.
NotConstructed == "none"

InitPolicies ==
    \E policy \in {"Digest", "Cookie"} :
        /\ now = 0
        /\ clients = << >>
        /\ lru = << >>
        /\ dNonces = 0
        /\ dLast = DigestCall(IF policy = "Digest" THEN "Init" ELSE NotConstructed,
                              NoHeader, "", 0, NoHdr)
        /\ accepted = [n \in Nonces |-> {}]
        /\ ascended = [n \in Nonces |-> {}]
        /\ RequireXsrfHeader \in (IF policy = "Cookie" THEN BOOLEAN ELSE {FALSE})
        /\ clientsByNonce = << >>
        /\ clientsByUser = << >>
        /\ cookieLru = << >>
        /\ cInfo = << >>
        /\ cNonces = 0
        /\ cLast = CookieCall(IF policy = "Cookie" THEN "Init" ELSE NotConstructed,
                              "", "", NoRequest, "", 0, "")
        /\ sessions = [k \in 1..MaxSessions |-> [user |-> "", state |-> "none"]]
        /\ WorkersIdle
        /\ BasicInit
        /\ HashInit /\ EvictInit /\ NonceInit /\ SizedInit /\ HasherInit

NextPolicies ==
    \/ dLast.op # NotConstructed /\ Next
    \/ cLast.op # NotConstructed /\ NextCookie

SpecPolicies == InitPolicies /\ [][NextPolicies]_vars

\* ---- the Digest policy shared by concurrent workers.  Digest has no lock:
\* the statements of one call interleave with those of the others at every
\* access to a.clients, a.lru and the records.
Goto(w, label) == pc' = [pc EXCEPT ![w] = label]

\* Well-formed headers with the right password for a nonce and a counter.
WorkerRequests ==
    {DigestRequest("Digest", opaque, "MD5", "auth", "/digest/", "user1", "user1", n, nc) :
        n \in 1..MaxReplayNonces, nc \in {<<"1">>, <<"2">>}}

DigestWorkerTick ==
    /\ now < MaxTime
    /\ now' = now + 1
    /\ UNCHANGED <<clients, lru, dNonces, dLast>>
    /\ UNCHANGED hvars /\ UNCHANGED cvars /\ UNCHANGED wvars /\ UNCHANGED bvars

\* Authorize up to the counter test: the header is validated, the record is
\* looked up and its numContacts is read.  The call returns "" here or goes
\* on to the two assignments.
DigestWorkerCheck(w, req) ==
    /\ pc[w] = "idle"
    /\ IF /\ validate(req) # ""
          /\ req.nonce \in DOMAIN clients
          /\ ~counterReplayed(clients[req.nonce].numContacts, ParseUint(req.nc).value)
       THEN /\ Goto(w, "store")
            /\ local' = [local EXCEPT ![w] = [NoLocal EXCEPT !.op = "Authorize",
                                                             !.req = req,
                                                             !.username = validate(req),
                                                             !.nonce = req.nonce]]
            /\ UNCHANGED dLast
       ELSE /\ dLast' = DigestCall("Authorize", req, "", 0, NoHdr)
            /\ UNCHANGED <<pc, local>>
    /\ UNCHANGED <<now, clients, lru, dNonces, mutex>>
    /\ UNCHANGED hvars /\ UNCHANGED cvars /\ UNCHANGED bvars

\* Authorize from client.numContacts = numContacts to return username.  The
\* record the pointer refers to may have left the map meanwhile.
DigestWorkerStore(w) ==
    /\ pc[w] = "store"
    /\ LET req == local[w].req
       IN  /\ clients' = IF req.nonce \in DOMAIN clients
                         THEN [clients EXCEPT ![req.nonce] =
                                  [numContacts |-> ParseUint(req.nc).value,
                                   lastContact |-> now,
                                   nonce       |-> req.nonce]]
                         ELSE clients
           /\ dLast' = DigestCall("Authorize", req, local[w].username, 0, NoHdr)
    /\ Goto(w, "idle")
    /\ local' = [local EXCEPT ![w] = NoLocal]
    /\ UNCHANGED <<now, lru, dNonces, mutex>>
    /\ UNCHANGED hvars /\ UNCHANGED cvars /\ UNCHANGED bvars

\* NotifyAuthRequired up to createNonce: eviction, then the nonce.
DigestWorkerEvict(w, rndOk) ==
    /\ pc[w] = "idle"
    /\ rndOk => dNonces < MaxReplayNonces
    /\ LET ev == Digest_evictLeastRecentlySeen(lru, clients, now)
       IN  /\ clients' = ev.clients
           /\ lru' = ev.lru
    /\ IF rndOk
       THEN /\ dNonces' = dNonces + 1
            /\ Goto(w, "insert")
            /\ local' = [local EXCEPT ![w] = [NoLocal EXCEPT !.op = "NotifyAuthRequired",
                                                             !.nonce = dNonces + 1]]
            /\ UNCHANGED dLast
       ELSE /\ dLast' = DigestCall("NotifyAuthRequired", NoHeader, "",
                                   StatusInternalServerError, NoHdr)
            /\ UNCHANGED <<dNonces, pc, local>>
    /\ UNCHANGED <<now, mutex>>
    /\ UNCHANGED hvars /\ UNCHANGED cvars /\ UNCHANGED bvars

\* NotifyAuthRequired from the new record to the response.
DigestWorkerInsert(w) ==
    /\ pc[w] = "insert"
    /\ LET nonce == local[w].nonce
           ci    == [numContacts |-> 0, lastContact |-> now, nonce |-> nonce]
           cl2   == [n \in DOMAIN clients \union {nonce} |->
                        IF n = nonce THEN ci ELSE clients[n]]
       IN  /\ clients' = cl2
           /\ lru' = heapPush(lru, lastContactOf(cl2), nonce)
           /\ dLast' = DigestCall("NotifyAuthRequired", NoHeader, "", StatusUnauthorized,
                                  [realm |-> Realm, nonce |-> nonce, opaque |-> opaque,
                                   algorithm |-> "MD5", qop |-> "auth"])
    /\ Goto(w, "idle")
    /\ local' = [local EXCEPT ![w] = NoLocal]
    /\ UNCHANGED <<now, dNonces, mutex>>
    /\ UNCHANGED hvars /\ UNCHANGED cvars /\ UNCHANGED bvars

NextDigestWorkers ==
    \/ DigestWorkerTick
    \/ \E w \in Workers, req \in WorkerRequests \union {NoHeader} : DigestWorkerCheck(w, req)
    \/ \E w \in Workers : DigestWorkerStore(w)
    \/ \E w \in Workers, rndOk \in BOOLEAN : DigestWorkerEvict(w, rndOk)
    \/ \E w \in Workers : DigestWorkerInsert(w)

SpecDigestWorkers == Init /\ [][NextDigestWorkers]_vars

\* ---- the Cookie policy shared by concurrent workers.  What a call does
\* before a.mutex.Lock() is one step; behind the lock, createSession first
\* reads clientsByUser and then acts on what it read.
MutexFree_always(m) == TRUE

\* sync.Mutex.Lock returns only when no worker holds the mutex.
MutexFree(m) == m = 0

CookieReturn(w, call) ==
    /\ cLast' = call
    /\ Goto(w, "idle")
    /\ local' = [local EXCEPT ![w] = NoLocal]

\* a.mutex.Lock() of any call.
CookieWorkerLock(w) ==
    /\ pc[w] = "lock"
    /\ MutexFree(mutex)
    /\ mutex' = w
    /\ Goto(w, "locked")
    /\ UNCHANGED <<now, local>>
    /\ UNCHANGED cvars /\ UNCHANGED dvars /\ UNCHANGED bvars

\* createSession up to the lock: the authenticator, then createNonce.
CookieWorkerCreateSession(w, username, password, rndOk) ==
    /\ pc[w] = "idle"
    /\ IF ~CookieAuth(username, password) \/ ~rndOk
       THEN /\ cLast' = [CookieCall("createSession", username, password, NoRequest, "", 0,
                                    IF ~CookieAuth(username, password)
                                    THEN "ErrBadUsernameOrPassword" ELSE "rand")
                            EXCEPT !.rndOk = rndOk]
            /\ UNCHANGED <<cNonces, pc, local>>
       ELSE /\ cNonces < MaxSessions
            /\ cNonces' = cNonces + 1
            /\ Goto(w, "lock")
            /\ local' = [local EXCEPT ![w] = [NoLocal EXCEPT !.op = "createSession",
                                                             !.username = username,
                                                             !.nonce = cNonces + 1]]
            /\ UNCHANGED cLast
    /\ UNCHANGED <<now, RequireXsrfHeader, clientsByNonce, clientsByUser, cookieLru,
                   cInfo, sessions, mutex>>
    /\ UNCHANGED dvars /\ UNCHANGED bvars

\* createSession: ci, ok := a.clientsByUser[username].
CookieWorkerLookup(w) ==
    /\ pc[w] = "locked"
    /\ local[w].op = "createSession"
    /\ local' = [local EXCEPT ![w].found =
                    IF local[w].username \in DOMAIN clientsByUser
                    THEN clientsByUser[local[w].username] ELSE 0]
    /\ Goto(w, "write")
    /\ UNCHANGED <<now, mutex>>
    /\ UNCHANGED cvars /\ UNCHANGED dvars /\ UNCHANGED bvars

\* createSession: refresh the record found or store the new one in both
\* maps, return the nonce and unlock.
CookieWorkerWrite(w) ==
    /\ pc[w] = "write"
    /\ LET username == local[w].username
           nonce    == local[w].nonce
           o        == local[w].found
           ci       == [username |-> username, lastContact |-> now, nonce |-> nonce]
       IN  IF o # 0
           THEN /\ cInfo' = [cInfo EXCEPT ![o].lastContact = now]
                /\ CookieReturn(w, CookieCall("createSession", username, username,
                                              NoRequest, "", cInfo[o].nonce, ""))
                /\ UNCHANGED <<clientsByNonce, clientsByUser, sessions>>
           ELSE /\ cInfo' = [x \in DOMAIN cInfo \union {nonce} |->
                                IF x = nonce THEN ci ELSE cInfo[x]]
                /\ clientsByNonce' = [k \in DOMAIN clientsByNonce \union {nonce} |->
                                         IF k = nonce THEN nonce ELSE clientsByNonce[k]]
                /\ clientsByUser' = [u \in DOMAIN clientsByUser \union {username} |->
                                        IF u = username THEN nonce ELSE clientsByUser[u]]
                /\ sessions' = [sessions EXCEPT ![nonce] =
                                   [user |-> username, state |-> "active"]]
                /\ CookieReturn(w, CookieCall("createSession", username, username,
                                              NoRequest, "", nonce, ""))
    /\ mutex' = 0
    /\ UNCHANGED <<now, RequireXsrfHeader, cookieLru, cNonces>>
    /\ UNCHANGED dvars /\ UNCHANGED bvars

\* destroySession is called.
CookieWorkerDestroySession(w, nonce) ==
    /\ pc[w] = "idle"
    /\ Goto(w, "lock")
    /\ local' = [local EXCEPT ![w] = [NoLocal EXCEPT !.op = "destroySession",
                                                     !.nonce = nonce]]
    /\ UNCHANGED <<now, mutex>>
    /\ UNCHANGED cvars /\ UNCHANGED dvars /\ UNCHANGED bvars

\* destroySession behind the lock.
CookieWorkerDestroy(w) ==
    /\ pc[w] = "locked"
    /\ local[w].op = "destroySession"
    /\ LET r == Cookie_destroySession(local[w].nonce, clientsByNonce, clientsByUser, cInfo)
       IN  /\ clientsByNonce' = r.byNonce
           /\ clientsByUser' = r.byUser
    /\ sessions' = Ended("destroyed", {local[w].nonce})
    /\ CookieReturn(w, CookieCall("destroySession", "", "", NoRequest, "", local[w].nonce, ""))
    /\ mutex' = 0
    /\ UNCHANGED <<now, RequireXsrfHeader, cookieLru, cInfo, cNonces>>
    /\ UNCHANGED dvars /\ UNCHANGED bvars

\* The credentials the concurrent callers present: two accepted users and a
\* wrong password.
WorkerCredentials == Credentials \ {<<"", "">>}

NextCookieWorkers ==
    \/ \E w \in Workers : CookieWorkerLock(w)
    \/ \E w \in Workers, c \in WorkerCredentials, rndOk \in BOOLEAN :
          CookieWorkerCreateSession(w, c[1], c[2], rndOk)
    \/ \E w \in Workers : CookieWorkerLookup(w)
    \/ \E w \in Workers : CookieWorkerWrite(w)
    \/ \E w \in Workers, nonce \in 1..cNonces : CookieWorkerDestroySession(w, nonce)
    \/ \E w \in Workers : CookieWorkerDestroy(w)

SpecCookieWorkers == Init /\ [][NextCookieWorkers]_vars

\* ---- every Cookie operation, step by step around the mutex
\* The position of a worker in its call: "auth" before a.Auth, "nonce" before
\* createNonce, "respond" before the writes to the ResponseWriter, "lock"
\* before a.mutex.Lock(), "locked" behind it, "setcookie" before
\* http.SetCookie.  The histories cLast and sessions are not kept here.
CallLocal(op, username, password, token, nonce) ==
    [op |-> op, username |-> username, password |-> password, token |-> token,
     nonce |-> nonce, locks |-> 0]

CallStart(w, label, l) ==
    /\ pc[w] = "idle"
    /\ Goto(w, label)
    /\ local' = [local EXCEPT ![w] = l]
    /\ UNCHANGED <<now, mutex>>
    /\ UNCHANGED cvars /\ UNCHANGED dvars /\ UNCHANGED bvars

CallEnd(w) ==
    /\ Goto(w, "idle")
    /\ local' = [local EXCEPT ![w] = NoLocal]

\* createSession is entered taking the lock at once.
CallCreateSession_lockFirst(w, username, password) ==
    /\ pc[w] = "idle"
    /\ MutexFree(mutex)
    /\ mutex' = w
    /\ Goto(w, "auth")
    /\ local' = [local EXCEPT ![w] = CallLocal("createSession", username, password,
                                               NoCookie, 0)]
    /\ UNCHANGED now
    /\ UNCHANGED cvars /\ UNCHANGED dvars /\ UNCHANGED bvars

\* createSession is called.
CallCreateSession(w, username, password) ==
    CallStart(w, "auth", CallLocal("createSession", username, password, NoCookie, 0))

\* createSession: if !a.Auth(username, password) return.
CallAuth(w) ==
    /\ pc[w] = "auth"
    /\ IF CookieAuth(local[w].username, local[w].password)
       THEN Goto(w, "nonce") /\ UNCHANGED local
       ELSE CallEnd(w)
    /\ UNCHANGED <<now, mutex>>
    /\ UNCHANGED cvars /\ UNCHANGED dvars /\ UNCHANGED bvars

\* createSession: nonce, err = createNonce(); if err != nil return.
CallNonce(w, rndOk) ==
    /\ pc[w] = "nonce"
    /\ IF rndOk
       THEN /\ cNonces < MaxSessions
            /\ cNonces' = cNonces + 1
            /\ Goto(w, "lock")
            /\ local' = [local EXCEPT ![w].nonce = cNonces + 1]
       ELSE CallEnd(w) /\ UNCHANGED cNonces
    /\ UNCHANGED <<now, RequireXsrfHeader, clientsByNonce, clientsByUser, cookieLru,
                   cInfo, cLast, sessions, mutex>>
    /\ UNCHANGED dvars /\ UNCHANGED bvars

\* Authorize is called: the XSRF header, the cookie and its length are
\* checked before the lock; a rejected request returns at once.
CallAuthorize(w, req) ==
    IF \/ RequireXsrfHeader /\ ~VerifyXsrfHeader(req)
       \/ ~req.token.present
       \/ req.token.len # nonceLen
    THEN pc[w] = "idle" /\ UNCHANGED vars
    ELSE CallStart(w, "lock", CallLocal("Authorize", "", "", req.token, 0))

\* NotifyAuthRequired is called.
CallNotifyAuthRequired(w) ==
    CallStart(w, "respond", CallLocal("NotifyAuthRequired", "", "", NoCookie, 0))

\* NotifyAuthRequired: the Location header, WriteHeader and the body.
CallRespond(w) ==
    /\ pc[w] = "respond"
    /\ Goto(w, "lock")
    /\ UNCHANGED <<now, local, mutex>>
    /\ UNCHANGED cvars /\ UNCHANGED dvars /\ UNCHANGED bvars

\* destroySession is called.
CallDestroySession(w, nonce) ==
    CallStart(w, "lock", CallLocal("destroySession", "", "", NoCookie, nonce))

\* Logout is called: without the cookie the call panics on token.Value
\* before it reaches destroySession; with it, destroySession is called.
CallLogout(w, token) ==
    IF NilDeref(token)
    THEN pc[w] = "idle" /\ UNCHANGED vars
    ELSE CallStart(w, "lock",
                   CallLocal("Logout", "", "", NoCookie,
                             IF token.len = nonceLen THEN token.id ELSE 0))

\* a.mutex.Lock().
CallLock(w) ==
    /\ pc[w] = "lock"
    /\ MutexFree(mutex)
    /\ mutex' = w
    /\ Goto(w, "locked")
    /\ local' = [local EXCEPT ![w].locks = @ + 1]
    /\ UNCHANGED now
    /\ UNCHANGED cvars /\ UNCHANGED dvars /\ UNCHANGED bvars

\* The deferred Unlock is not run.
deferUnlock_never(w) == w

\* defer a.mutex.Unlock(): the mutex is free once the function has returned.
deferUnlock(w) == 0

\* The statements between Lock and the return, and the deferred Unlock.
CallLocked(w) ==
    /\ pc[w] = "locked"
    /\ LET l == local[w]
       IN  CASE l.op = "createSession" ->
                  LET r == Cookie_createSession(l.username, l.password, TRUE, l.nonce,
                                                clientsByNonce, clientsByUser, cInfo, now)
                  IN  /\ clientsByNonce' = r.byNonce
                      /\ clientsByUser' = r.byUser
                      /\ cInfo' = r.info
                      /\ UNCHANGED cookieLru
             [] l.op = "Authorize" ->
                  LET r == Cookie_Authorize([xsrf |-> NoXsrf, token |-> l.token],
                                            clientsByNonce, cInfo, now, FALSE)
                  IN  /\ cInfo' = r.info
                      /\ UNCHANGED <<clientsByNonce, clientsByUser, cookieLru>>
             [] l.op = "NotifyAuthRequired" ->
                  LET r == Cookie_evictLeastRecentlySeen(cookieLru, clientsByNonce,
                                                         clientsByUser, cInfo, now)
                  IN  /\ clientsByNonce' = r.byNonce
                      /\ clientsByUser' = r.byUser
                      /\ cookieLru' = r.lru
                      /\ cInfo' = Live(r.byNonce, r.byUser, r.lru, cInfo)
             [] l.op \in {"destroySession", "Logout"} ->
                  LET r == Cookie_destroySession(l.nonce, clientsByNonce,
                                                 clientsByUser, cInfo)
                  IN  /\ clientsByNonce' = r.byNonce
                      /\ clientsByUser' = r.byUser
                      /\ cInfo' = Live(r.byNonce, r.byUser, cookieLru, cInfo)
                      /\ UNCHANGED cookieLru
    /\ mutex' = deferUnlock(w)
    /\ IF local[w].op = "Logout"
       THEN /\ Goto(w, "setcookie")
            /\ local' = [local EXCEPT ![w].nonce = 0]
       ELSE CallEnd(w)
    /\ UNCHANGED <<now, RequireXsrfHeader, cNonces, cLast, sessions>>
    /\ UNCHANGED dvars /\ UNCHANGED bvars

\* Logout: http.SetCookie clears the cookie, then the call returns.
CallSetCookie(w) ==
    /\ pc[w] = "setcookie"
    /\ CallEnd(w)
    /\ UNCHANGED <<now, mutex>>
    /\ UNCHANGED cvars /\ UNCHANGED dvars /\ UNCHANGED bvars

\* The cookies the concurrent callers send: none, a short one, a nonce that
\* was never handed out and the nonces of the sessions there are.
CallTokens == {NoCookie, ShortCookie, Token(0)} \union {Token(k) : k \in DOMAIN clientsByNonce}

\* The credentials they present: a right and a wrong password.
CallCredentials == {<<"user1", "user1">>, <<"user1", "user2">>}

NextCookieCalls ==
    \/ \E w \in Workers, c \in CallCredentials : CallCreateSession(w, c[1], c[2])
    \/ \E w \in Workers : CallAuth(w)
    \/ \E w \in Workers, rndOk \in BOOLEAN : CallNonce(w, rndOk)
    \/ \E w \in Workers, token \in CallTokens :
          CallAuthorize(w, [xsrf |-> NoXsrf, token |-> token])
    \/ \E w \in Workers : CallNotifyAuthRequired(w)
    \/ \E w \in Workers : CallRespond(w)
    \/ \E w \in Workers, nonce \in {0} \union DOMAIN clientsByNonce :
          CallDestroySession(w, nonce)
    \/ \E w \in Workers, token \in CallTokens \ {Token(0)} : CallLogout(w, token)
    \/ \E w \in Workers : CallLock(w)
    \/ \E w \in Workers : CallLocked(w)
    \/ \E w \in Workers : CallSetCookie(w)

SpecCookieCalls == Init /\ [][NextCookieCalls]_vars

\* A step of the call worker w is in.  The scheduler runs every goroutine
\* that can run, and a goroutine waiting in Lock gets the mutex if it is
\* free again and again (sync.Mutex hands it to a starving waiter).
CallStep(w) ==
    \/ CallAuth(w)
    \/ \E rndOk \in BOOLEAN : CallNonce(w, rndOk)
    \/ CallRespond(w)
    \/ CallLocked(w)
    \/ CallSetCookie(w)

SpecCookieCallsFair ==
    /\ Init
    /\ [][NextCookieCalls]_vars
    /\ \A w \in Workers : WF_vars(CallStep(w)) /\ SF_vars(CallLock(w))

\* ------------------------------------------------------------ properties
\* An Authorize call whose request passes every check before the cache
\* lookup ("otherwise valid").
ValidCall(call) == call.op = "Authorize" /\ validate(call.req) # ""

Counter(call) == ParseUint(call.req.nc).value

\* C1: on a nonce that NotifyAuthRequired issued, an otherwise-valid request
\* succeeds when the record is cached and its counter is above the stored
\* one (or nothing was counted yet), so nc1 < nc2 succeed in that order; and
\* once nc2 was accepted after a lower nc1, every later otherwise-valid
\* request on that nonce with nc <= nc2 returns the empty result.
C1_ReplayRejection ==
    [][ValidCall(dLast') =>
        LET n == dLast'.req.nonce
            c == Counter(dLast')
        IN  /\ (n \in DOMAIN clients
                /\ (clients[n].numContacts = 0 \/ c > clients[n].numContacts))
               => dLast'.result = dLast'.req.username
            /\ (n \in Nonces /\ \E c2 \in ascended[n] : c <= c2)
               => dLast'.result = ""]_vars

\* Two counters nc1 < nc2 were accepted in that order on a nonce that is
\* still cached, and the last call, with nc <= nc2, was rejected.
C1_Witness ==
    /\ ValidCall(dLast)
    /\ dLast.result = ""
    /\ dLast.req.nonce \in DOMAIN clients
    /\ \E c2 \in ascended[dLast.req.nonce] : Counter(dLast) <= c2

\* C2: once Authorize has accepted a counter on a nonce (zero included), an
\* otherwise-valid request reusing that counter on that nonce is rejected.
C2_NoCounterReuse ==
    [][(/\ ValidCall(dLast')
        /\ dLast'.req.nonce \in Nonces
        /\ Counter(dLast') \in accepted[dLast'.req.nonce])
       => dLast'.result = ""]_vars

\* What the claim lists: scheme, opaque, algorithm, qop, uri, username,
\* password, response, counter syntax, cached record, counter check.
C3_Conditions(req, cl) ==
    /\ req.scheme = "Digest"
    /\ req.opaque = opaque
    /\ req.algorithm = "MD5"
    /\ req.qop = "auth"
    /\ req.uri = req.path
    /\ req.username # ""
    /\ Auth(req.username) # ""
    /\ req.response = calcHash(<<calcHash(<<req.username, Realm, Auth(req.username)>>),
                                 req.nonce, req.nc, req.cnonce, req.qop,
                                 calcHash(<<req.method, req.path>>)>>)
    /\ ParseUint(req.nc).ok
    /\ req.nonce \in DOMAIN cl
    /\ (cl[req.nonce].numContacts = 0
        \/ ParseUint(req.nc).value > cl[req.nonce].numContacts)

\* C3: Authorize returns a non-empty username only if every listed condition
\* holds for the request and the cache it finds; the username is then the
\* one of the header.
C3_AuthorizeOnlyIf ==
    [][(dLast'.op = "Authorize" /\ dLast'.result # "")
       => (C3_Conditions(dLast'.req, clients) /\ dLast'.result = dLast'.req.username)]_vars

\* Authorize has returned a username.
C3_Witness == dLast.op = "Authorize" /\ dLast.result = "user1"

\* C8: eviction never removes a record whose age is below ClientCacheResidence.
C8_NoFreshEviction ==
    [][dLast'.op = "NotifyAuthRequired"
       => \A n \in DOMAIN clients \ DOMAIN clients' :
             now - clients[n].lastContact >= ClientCacheResidence]_vars

Expired(cl, t) == {n \in DOMAIN cl : t - cl[n].lastContact >= ClientCacheResidence}

DistinctContacts(cl) ==
    \A m, n \in DOMAIN cl : m # n => cl[m].lastContact # cl[n].lastContact

\* C9: with distinct lastContact values, eviction removes exactly the records
\* whose age is at least ClientCacheResidence from the cache and the heap and
\* leaves the others reachable by nonce.
C9_EvictsExactlyExpired ==
    [][(dLast'.op = "NotifyAuthRequired" /\ DistinctContacts(clients))
       => /\ \A n \in Expired(clients, now) :
                n \notin DOMAIN clients' /\ n \notin Range(lru')
          /\ \A n \in DOMAIN clients \ Expired(clients, now) :
                n \in DOMAIN clients' /\ n \in Range(lru')]_vars

\* The nonce k was returned by createSession or Login for some user and was
\* neither destroyed nor evicted since.
Active(k) == k \in DOMAIN sessions /\ sessions[k].state = "active"

C5_DestroyedStaysInvalid ==
    \A k \in DOMAIN sessions :
        sessions[k].state = "destroyed"
        => /\ k \notin DOMAIN clientsByNonce
           /\ (cLast.op = "Authorize" /\ cLast.req.token.id = k) => cLast.result = ""

\* The cookie of a destroyed session of user1 was presented and rejected
\* after user1 had logged in again.
C5_Witness ==
    /\ cLast.op = "Authorize"
    /\ cLast.req.token = Token(cLast.req.token.id)
    /\ RequireXsrfHeader => VerifyXsrfHeader(cLast.req)
    /\ cLast.req.token.id \in DOMAIN sessions
    /\ sessions[cLast.req.token.id] = [user |-> "user1", state |-> "destroyed"]
    /\ "user1" \in DOMAIN clientsByUser
    /\ cLast.result = ""

\* C6: createSession (or Login) with valid credentials of a user whose
\* session was neither destroyed nor evicted returns that session's nonce,
\* inserts no record and sets the record's lastContact to the current time.
C6_IdempotentCreateSession ==
    [][(cLast'.op \in {"createSession", "Login"} /\ cLast'.err = "")
       => \A k \in DOMAIN sessions :
             (Active(k) /\ sessions[k].user = cLast'.username)
             => /\ cLast'.nonce = k
                /\ DOMAIN clientsByNonce' = DOMAIN clientsByNonce
                /\ DOMAIN clientsByUser' = DOMAIN clientsByUser
                /\ DOMAIN cInfo' = DOMAIN cInfo
                /\ k \in DOMAIN clientsByNonce'
                /\ cInfo'[clientsByNonce'[k]].lastContact = now]_vars

\* createSession has returned the nonce of an older session, later in time.
C6_Witness ==
    /\ cLast.op = "createSession"
    /\ cLast.err = ""
    /\ cLast.nonce = 1
    /\ cNonces = 2
    /\ cInfo[clientsByNonce[1]].lastContact = now
    /\ now > 0

\* C7: the two maps index the same records, each under its own nonce and
\* username, and no two nonces of the by-nonce map belong to one username.
C7_OneSessionPerUser ==
    /\ Range(clientsByNonce) = Range(clientsByUser)
    /\ \A k \in DOMAIN clientsByNonce : cInfo[clientsByNonce[k]].nonce = k
    /\ \A u \in DOMAIN clientsByUser : cInfo[clientsByUser[u]].username = u
    /\ \A k1, k2 \in DOMAIN clientsByNonce :
          cInfo[clientsByNonce[k1]].username = cInfo[clientsByNonce[k2]].username
          => k1 = k2

\* A session was destroyed while another user's session stays in both maps.
C7_Witness ==
    /\ cLast.op = "destroySession"
    /\ cLast.nonce \in DOMAIN sessions
    /\ sessions[cLast.nonce].state = "destroyed"
    /\ Cardinality(DOMAIN clientsByNonce) = 1
    /\ Cardinality(DOMAIN clientsByUser) = 1

\* C10: when Cookie.NotifyAuthRequired has completed, no session whose age
\* is at least ClientCacheResidence remains in either map.
C10_ExpiredSessionsEvicted ==
    cLast.op = "NotifyAuthRequired"
    => /\ \A k \in DOMAIN clientsByNonce :
             now - cInfo[clientsByNonce[k]].lastContact < ClientCacheResidence
       /\ \A u \in DOMAIN clientsByUser :
             now - cInfo[clientsByUser[u]].lastContact < ClientCacheResidence

\* C11: for the cookie of an active session, Authorize with RequireXsrfHeader
\* set and no X-Xsrf-Cookie header returns the empty result and changes no
\* record, map or heap; in every other case (header present with any value,
\* or RequireXsrfHeader not set, with or without the header) it returns the
\* session's username and refreshes the record.
C11_XsrfGating ==
    [][cLast'.op = "Authorize" =>
        LET req == cLast'.req
            k   == req.token.id
        IN  (req.token = Token(k) /\ Active(k))
            => IF RequireXsrfHeader /\ ~req.xsrf.present
               THEN /\ cLast'.result = ""
                    /\ cInfo' = cInfo
                    /\ UNCHANGED <<clientsByNonce, clientsByUser, cookieLru>>
               ELSE /\ cLast'.result = sessions[k].user
                    /\ k \in DOMAIN clientsByNonce'
                    /\ cInfo'[clientsByNonce'[k]].lastContact = now]_vars

\* With RequireXsrfHeader set, user1's session cookie was presented without
\* the header, later than the session was made, and was rejected.
C11_Witness ==
    /\ RequireXsrfHeader
    /\ cLast.op = "Authorize"
    /\ ~cLast.req.xsrf.present
    /\ cLast.req.token = Token(cLast.req.token.id)
    /\ Active(cLast.req.token.id)
    /\ sessions[cLast.req.token.id].user = "user1"
    /\ cInfo[clientsByNonce[cLast.req.token.id]].lastContact < now
    /\ cLast.result = ""

\* The requests the claim lists for Digest: no header, wrong scheme, missing
\* or wrong opaque/algorithm/qop, unparsable counter, unknown nonce.
DigestInvalid(req, cl) ==
    \/ req.scheme # "Digest"
    \/ req.opaque # opaque \/ req.algorithm # "MD5" \/ req.qop # "auth"
    \/ ~ParseUint(req.nc).ok
    \/ req.nonce \notin DOMAIN cl

\* The requests the claim lists for Cookie: no cookie, empty or wrong-length
\* value, a value that is the nonce of no session.
CookieInvalid(req, byNonce) ==
    \/ ~req.token.present
    \/ req.token.len # nonceLen
    \/ req.token.id \notin DOMAIN byNonce

\* C12: every call of Authorize, of either policy, completes without a panic,
\* and returns the empty string for each of the invalid requests listed.
C12_AuthorizeNeverFaults ==
    /\ cLast.op = "Authorize"
       => /\ cLast.err = ""
          /\ CookieInvalid(cLast.req, clientsByNonce) => cLast.result = ""
    /\ dLast.op = "Authorize"
       => (DigestInvalid(dLast.req, clients) => dLast.result = "")

\* Cookie.Authorize has served a request without cookie while a session
\* exists.
C12_Witness ==
    /\ cLast.op = "Authorize"
    /\ ~cLast.req.token.present
    /\ clientsByNonce # << >>
    /\ cLast.result = ""

\* C13: every call of Logout, with or without Authorization cookie, returns
\* nil without a panic, leaves the session the cookie names in neither map,
\* and sets an Authorization cookie with empty value and a past expiry.
C13_LogoutCompletes ==
    cLast.op = "Logout"
    => /\ cLast.err = ""
       /\ cLast.setCookie = [set |-> TRUE, value |-> 0, httpOnly |-> FALSE,
                             expired |-> TRUE]
       /\ cLast.req.token.present
          => /\ cLast.req.token.id \notin DOMAIN clientsByNonce
             /\ \A u \in DOMAIN clientsByUser :
                   cInfo[clientsByUser[u]].nonce # cLast.req.token.id

NamesEmptyUser(req, byNonce, info) ==
    /\ req.token = Token(req.token.id)
    /\ req.token.id \in DOMAIN byNonce
    /\ info[byNonce[req.token.id]].username = ""

SessionCall(call) == call.op \in {"createSession", "Login"}

\* C15: createSession or Login with credentials the authenticator rejects
\* returns ErrBadUsernameOrPassword and no nonce, sets no cookie, and changes
\* no record, map or heap: a session of that username keeps its nonce and
\* its lastContact.
C15_BadCredentials ==
    [][(SessionCall(cLast') /\ ~CookieAuth(cLast'.username, cLast'.password))
       => /\ cLast'.err = "ErrBadUsernameOrPassword"
          /\ cLast'.nonce = 0
          /\ cLast'.setCookie = NoSetCookie
          /\ cInfo' = cInfo
          /\ UNCHANGED <<clientsByNonce, clientsByUser, cookieLru>>]_vars

\* Login with a wrong password for user1 was refused while user1 has a
\* session that was last used earlier.
C15_Witness ==
    /\ cLast.op = "Login"
    /\ cLast.username = "user1"
    /\ cLast.err = "ErrBadUsernameOrPassword"
    /\ "user1" \in DOMAIN clientsByUser
    /\ cInfo[clientsByUser["user1"]].lastContact < now

\* C16: createSession or Login with accepted credentials, when createNonce
\* fails, returns the error of createNonce (not ErrBadUsernameOrPassword) and
\* no nonce, sets no cookie, and changes no record, map or heap.
C16_NonceFailure ==
    [][(/\ SessionCall(cLast') /\ CookieAuth(cLast'.username, cLast'.password)
        /\ ~cLast'.rndOk)
       => /\ cLast'.err \notin {"", "ErrBadUsernameOrPassword"}
          /\ cLast'.nonce = 0
          /\ cLast'.setCookie = NoSetCookie
          /\ cInfo' = cInfo
          /\ UNCHANGED <<clientsByNonce, clientsByUser, cookieLru>>]_vars

\* Login of user1 failed on createNonce while user1 has a session that was
\* last used earlier.
C16_Witness ==
    /\ cLast.op = "Login"
    /\ cLast.username = "user1"
    /\ ~cLast.rndOk
    /\ cLast.err = "rand"
    /\ "user1" \in DOMAIN clientsByUser
    /\ cInfo[clientsByUser["user1"]].lastContact < now

\* C20: a call of Digest.NotifyAuthRequired in which createNonce succeeded
\* sets status 401 and a WWW-Authenticate header with the realm, a nonce that
\* was not in the cache, the opaque value, algorithm MD5 and qop auth; the
\* one record added to the cache is that nonce's, with numContacts 0 and
\* lastContact = now, and the one element added to the heap is that record.
C20_Challenge ==
    [][(dLast'.op = "NotifyAuthRequired" /\ dNonces' = dNonces + 1)
       => LET n == dLast'.hdr.nonce
          IN  /\ dLast'.status = StatusUnauthorized
              /\ dLast'.hdr = [realm |-> Realm, nonce |-> n, opaque |-> opaque,
                               algorithm |-> "MD5", qop |-> "auth"]
              /\ n \notin DOMAIN clients
              /\ DOMAIN clients' \ DOMAIN clients = {n}
              /\ clients'[n] = [numContacts |-> 0, lastContact |-> now, nonce |-> n]
              /\ Range(lru') \ Range(lru) = {n}
              /\ Cardinality({i \in DOMAIN lru' : lru'[i] = n}) = 1]_vars

\* A second challenge was issued, later than the first, and both records
\* are cached and on the heap.
C20_Witness ==
    /\ dLast.op = "NotifyAuthRequired"
    /\ dLast.status = StatusUnauthorized
    /\ dLast.hdr.nonce = 2
    /\ DOMAIN clients = {1, 2}
    /\ Len(lru) = 2
    /\ clients[1].lastContact < clients[2].lastContact

\* The Authorize call of worker w has passed the counter test: what is left
\* of it stores its counter and returns the username.
Accepting(w) == pc[w] = "store" /\ local[w].op = "Authorize"

\* C18: of the Authorize calls in progress at one time that carry the same
\* nonce and the same counter, at most one gets past the counter test (and
\* so returns the username), and no step lowers a record's stored counter.
C18_AtomicCounter ==
    [][/\ \A w, v \in Workers :
             (/\ w # v /\ Accepting(w) /\ Accepting(v)
              /\ local[w].req.nonce = local[v].req.nonce)
             => local[w].req.nc # local[v].req.nc
       /\ \A n \in DOMAIN clients \intersect DOMAIN clients' :
             clients'[n].numContacts >= clients[n].numContacts]_vars

\* The worker is between its first and its last access to the maps, the heap
\* or a record of the call it is serving.
Accessing(w) == pc[w] \in {"store", "insert", "locked", "write"}

\* C19: in every reachable state at most one worker is within the accesses
\* of its call to the shared maps, heap and records.
C19_MutualExclusion == Cardinality({w \in Workers : Accessing(w)}) <= 1

\* The records of the by-nonce map that belong to username.
RecordsOf(username, byNonce, info) ==
    {k \in DOMAIN byNonce : info[byNonce[k]].username = username}

\* C17: whenever a createSession call returns a nonce, under any
\* interleaving with the calls of the other workers, exactly one record of
\* that username exists, both maps refer to it, and the nonce returned is
\* that record's; and at no time does a username have two records.
C17_OneRecordUnderConcurrency ==
    [][/\ \A w \in Workers :
             (pc[w] = "write" /\ pc'[w] = "idle")
             => LET u == local[w].username
                IN  /\ Cardinality(RecordsOf(u, clientsByNonce', cInfo')) = 1
                    /\ u \in DOMAIN clientsByUser'
                    /\ cLast'.nonce = cInfo'[clientsByUser'[u]].nonce
                    /\ RecordsOf(u, clientsByNonce', cInfo') = {cLast'.nonce}
       /\ \A u \in {c[1] : c \in WorkerCredentials} :
             Cardinality(RecordsOf(u, clientsByNonce', cInfo')) <= 1]_vars

\* A createSession call for user1 has returned the nonce it stored while
\* another call for user1, which drew its nonce earlier, waits for the lock.
C17_Witness ==
    /\ cLast.op = "createSession"
    /\ cLast.username = "user1"
    /\ cLast.nonce = 2
    /\ clientsByUser = [u \in {"user1"} |-> 2]
    /\ \E v \in Workers :
          /\ pc[v] = "lock"
          /\ local[v].op = "createSession"
          /\ local[v].username = "user1"
          /\ local[v].nonce = 1

\* ---- C21 ----

\* A session is fresh while its age is below the residence duration.
Fresh(o, info, t) == t - info[o].lastContact < ClientCacheResidence

\* C21: every Cookie.NotifyAuthRequired sets Location to the configured
\* LoginPage and status 307, writes the anchor body if and only if the
\* method is GET, and leaves every session that is not residence-expired
\* in both maps with an unchanged record.
C21_RedirectToLogin ==
    [][cLast'.op = "NotifyAuthRequired" =>
          /\ cLast'.location = LoginPage
          /\ cLast'.status = StatusTemporaryRedirect
          /\ cLast'.body <=> (cLast'.method = "GET")
          /\ \A k \in DOMAIN clientsByNonce :
                Fresh(clientsByNonce[k], cInfo, now)
                => /\ k \in DOMAIN clientsByNonce'
                   /\ clientsByNonce'[k] = clientsByNonce[k]
                   /\ cInfo'[clientsByNonce[k]] = cInfo[clientsByNonce[k]]
          /\ \A u \in DOMAIN clientsByUser :
                Fresh(clientsByUser[u], cInfo, now)
                => /\ u \in DOMAIN clientsByUser'
                   /\ clientsByUser'[u] = clientsByUser[u]
                   /\ cInfo'[clientsByUser[u]] = cInfo[clientsByUser[u]]]_vars

\* A POST was redirected without a body while a fresh session was held.
C21_Witness ==
    /\ cLast.op = "NotifyAuthRequired"
    /\ cLast.method = "POST"
    /\ ~cLast.body
    /\ cLast.status = StatusTemporaryRedirect
    /\ \E k \in DOMAIN clientsByNonce : Fresh(clientsByNonce[k], cInfo, now)

\* ---- the Basic policy: it keeps no state between calls, so every call
\* ---- is a function of the Authorization header it is given.

\* The values of the Authorization header: absent, or a scheme, zero to two
\* spaces and a payload.  The credentials a client encodes are strings of
\* the bytes u, p and colon; the payload is properly encoded, has lost its
\* last character, or has a character outside the alphabet.
AuthorizationHeaders ==
    LET creds    == UNION {[1..n -> {117, 112, 58}] : n \in 0..MaxCredLen}
        good     == {EncodeToString(c) : c \in creds}
        payloads == good \union {SubSeq(p, 1, Len(p) - 1) : p \in good \ {<< >>}}
                         \union {[p EXCEPT ![1] = "!"] : p \in good \ {<< >>}}
        schemes  == {BasicScheme, <<"b", "a", "s", "i", "c">>,
                     <<"D", "i", "g", "e", "s", "t">>, << >>}
    IN  {<< >>} \union {s \o sep \o p : s \in schemes,
                                        sep \in {<< >>, <<" ">>, <<" ", " ">>},
                                        p \in payloads}

BasicFrame ==
    /\ UNCHANGED <<now, hLast, eLast, nLast, ClientCacheSize, ClientCacheDelta, md5>>
    /\ UNCHANGED dvars /\ UNCHANGED cvars /\ UNCHANGED wvars

\* The handler calls Authorize on the request it serves.
BasicAuthorize ==
    /\ bLast' = BasicCall("Authorize", bLast.token, Basic_Authorize(bLast.token),
                          << >>, 0, "")
    /\ BasicFrame

BasicParseToken ==
    LET r == Basic_ParseToken(bLast.token)
    IN  /\ bLast' = BasicCall("ParseToken", bLast.token, r.username, r.password,
                              0, "")
        /\ BasicFrame

\* Basic.NotifyAuthRequired: WWW-Authenticate: Basic realm="..." and 401.
BasicNotifyAuthRequired ==
    /\ bLast' = BasicCall("NotifyAuthRequired", bLast.token, << >>, << >>,
                          StatusUnauthorized, Realm)
    /\ BasicFrame

NextBasic ==
    \/ BasicAuthorize
    \/ BasicParseToken
    \/ BasicNotifyAuthRequired

\* A Basic policy serving one request, with any Authorization header.
InitBasic ==
    /\ DigestInit /\ RequireXsrfHeader = FALSE /\ CookieInit /\ WorkersIdle
    /\ \E token \in AuthorizationHeaders :
          bLast = BasicCall("Init", token, << >>, << >>, 0, "")
    /\ HashInit /\ EvictInit /\ NonceInit /\ SizedInit /\ HasherInit

SpecBasic == InitBasic /\ [][NextBasic]_vars

\* ---- C22 ----

\* The header is "Basic", one space and a payload that decodes to a user
\* without a colon, a colon and a password which the authenticator accepts.
BasicCredentialsAccepted(token) ==
    /\ Len(token) >= 6
    /\ SubSeq(token, 1, 6) = BasicScheme \o <<" ">>
    /\ LET d == DecodeString(SubSeq(token, 7, Len(token)))
       IN  /\ d.ok
           /\ \E n \in 2..Len(d.bytes) :
                 /\ d.bytes[n] = 58
                 /\ \A m \in 1..(n - 1) : d.bytes[m] # 58
                 /\ BasicAuth(SubSeq(d.bytes, 1, n - 1),
                              SubSeq(d.bytes, n + 1, Len(d.bytes)))

\* C22: Basic.Authorize returns a non-empty username exactly when the header
\* has scheme Basic, its payload base64-decodes to user:password with a
\* non-empty user and the authenticator accepts (user, password); and the
\* username it returns is the one ParseToken extracts from the same header.
C22_BasicAuthorize ==
    bLast.op = "Authorize"
    => /\ bLast.username # << >> <=> BasicCredentialsAccepted(bLast.token)
       /\ bLast.username # << >>
          => bLast.username = Basic_ParseToken(bLast.token).username

\* Authorize accepted u:u sent as "Basic dTp1".
C22_Witness ==
    /\ bLast.op = "Authorize"
    /\ bLast.token = BasicScheme \o <<" ", "d", "T", "p", "1">>
    /\ bLast.username = <<117>>

\* ---- C24 ----

\* The number of entries of the heap array pq that refer to x.
Entries(pq, x) == Cardinality({i \in 1..Len(pq) : pq[i] = x})

\* C24: between the operations of the Digest and Cookie policies, every
\* nonce of the by-nonce map has exactly one entry in the eviction heap, and
\* every heap entry refers to a record that is still in the map.
C24_MapHeapCorrespondence ==
    /\ \A n \in DOMAIN clients : Entries(lru, n) = 1
    /\ \A i \in 1..Len(lru) : lru[i] \in DOMAIN clients
    /\ \A k \in DOMAIN clientsByNonce : Entries(cookieLru, clientsByNonce[k]) = 1
    /\ \A i \in 1..Len(cookieLru) : cookieLru[i] \in Range(clientsByNonce)

\* ---- C25 ----

\* The smallest lastContact among the records of the heap pq.
Oldest(pq, cl) ==
    CHOOSE m \in {cl[pq[i]].lastContact : i \in 1..Len(pq)} :
        \A i \in 1..Len(pq) : m <= cl[pq[i]].lastContact

\* The iterations of the eviction loop started on heap pq and map cl at time
\* t: in each, the record MinValue reads has the smallest lastContact of
\* the heap and, when the loop goes on, is the record heap.Pop removes; the
\* loop stops only when the oldest record is too recent (or none is left).
RECURSIVE IterationsAgree(_, _, _)
IterationsAgree(pq, cl, t) ==
    Len(pq) > 0
    => LET compared == pq[Len(pq)]
           p        == heapPop(pq, lastContactOf(cl))
       IN  /\ cl[compared].lastContact = Oldest(pq, cl)
           /\ IF MinValue(pq, cl) + ClientCacheResidence <= t
              THEN /\ p.ret = compared
                   /\ IterationsAgree(p.pq, Remove(cl, p.ret), t)
              ELSE Oldest(pq, cl) + ClientCacheResidence > t

\* C25: in every iteration of evictLeastRecentlySeen, the record whose
\* lastContact MinValue compares against the residence duration is the one
\* with the smallest lastContact in the heap and is the record heap.Pop
\* then removes; the loop stops at the first record that is too recent.
C25_ComparedIsPopped ==
    [][dLast'.op = "NotifyAuthRequired" => IterationsAgree(lru, clients, now)]_vars

\* ---- C26 ----

\* C26: after any sequence of NotifyAuthRequired and Authorize calls the
\* Digest eviction heap is a min-heap on lastContact: no entry has a smaller
\* lastContact than its parent, so the root is the least recently contacted
\* record.
C26_HeapOrder ==
    /\ \A i \in 2..Len(lru) : ~Less(lru, lastContactOf(clients), i, i \div 2)
    /\ Len(lru) > 0 => clients[lru[1]].lastContact = Oldest(lru, clients)

\* ---- C28 ----

\* The call just completed is a successful Authorize on nonce n.
Accepted(call, n) == call.op = "Authorize" /\ call.result # "" /\ call.req.nonce = n

\* C28: over the lifetime of a Digest record its counter never decreases:
\* it is 0 when NotifyAuthRequired inserts the record, it changes only in a
\* successful Authorize on that nonce, and a successful Authorize sets it to
\* the counter of the request, which is strictly greater than the stored
\* counter whenever the stored counter is not zero.
C28_CounterMonotone ==
    [][\A n \in DOMAIN clients' :
          IF n \notin DOMAIN clients
          THEN dLast'.op = "NotifyAuthRequired" /\ clients'[n].numContacts = 0
          ELSE /\ clients'[n].numContacts >= clients[n].numContacts
               /\ clients'[n].numContacts # clients[n].numContacts
                  => Accepted(dLast', n)
               /\ Accepted(dLast', n)
                  => /\ clients'[n].numContacts = Counter(dLast')
                     /\ clients[n].numContacts # 0
                        => Counter(dLast') > clients[n].numContacts]_vars

\* A record whose counter went from 1 to 2 by two successful calls.
C28_Witness ==
    \E n \in DOMAIN clients :
        /\ Accepted(dLast, n)
        /\ clients[n].numContacts = 2
        /\ 1 \in accepted[n]
        /\ 2 \in ascended[n]

\* ---- C29 ----

\* The call just completed used the Cookie record o: Authorize found it
\* under the cookie's nonce and returned its username, or createSession
\* (Login) found it under the username and returned its nonce.
UsedSession(call, o, byNonce, byUser, info) ==
    \/ /\ call.op = "Authorize"
       /\ call.req.token = Token(call.req.token.id)
       /\ call.req.token.id \in DOMAIN byNonce
       /\ byNonce[call.req.token.id] = o
       /\ call.result = info[o].username
    \/ /\ SessionCall(call)
       /\ call.err = ""
       /\ call.username \in DOMAIN byUser
       /\ byUser[call.username] = o

Evicted(cl, issued) == (1..issued) \ DOMAIN cl

\* C30: once eviction has removed the record of a Digest nonce, no later
\* Authorize presenting that nonce succeeds, whatever its counter, and no
\* later challenge inserts the nonce again.
C30_EvictedIsTerminal ==
    [][\A n \in Evicted(clients, dNonces) :
          /\ ~Accepted(dLast', n)
          /\ n \notin DOMAIN clients']_vars

\* An otherwise-valid request on an evicted nonce has been rejected.
C30_Witness ==
    /\ ValidCall(dLast)
    /\ dLast.req.nonce \in Evicted(clients, dNonces)
    /\ dLast.result = ""

\* ---- the response computation of Digest.Authorize on the text of its
\* ---- parameters: a function of nine strings, computed in three stages.

\* The example of RFC 2617, section 3.5.
RFC2617Input ==
    HashInput(<<"M", "u", "f", "a", "s", "a">>,
              <<"t", "e", "s", "t", "r", "e", "a", "l", "m", "@", "h", "o", "s", "t", ".", "c", "o", "m">>,
              <<"C", "i", "r", "c", "l", "e", " ", "O", "f", " ", "L", "i", "f", "e">>,
              <<"G", "E", "T">>,
              <<"/", "d", "i", "r", "/", "i", "n", "d", "e", "x", ".", "h", "t", "m", "l">>,
              <<"d", "c", "d", "9", "8", "b", "7", "1", "0", "2", "d", "d", "2", "f", "0", "e", "8", "b", "1", "1", "d", "0", "f", "6", "0", "0", "b", "f", "b", "0", "c", "0", "9", "3">>,
              <<"0", "0", "0", "0", "0", "0", "0", "1">>,
              <<"0", "a", "4", "f", "1", "1", "3", "b">>,
              <<"a", "u", "t", "h">>)

RFC2617Response ==
    <<"6", "6", "2", "9", "f", "a", "e", "4", "9", "3", "9", "3", "a", "0", "5", "3", "9", "7", "4", "5", "0", "9", "7", "8", "5", "0", "7", "c", "4", "e", "f", "1">>

\* The example and its variations in user, password, method and counter
\* (the eight-digit counter of the client's k-th request, k < 10).
HashInputs ==
    LET NcText(k) == <<"0", "0", "0", "0", "0", "0", "0", ascii[k + 17]>>
    IN  {[RFC2617Input EXCEPT !.username = u, !.password = pw, !.method = m,
                              !.nc = NcText(k)] :
            u \in {RFC2617Input.username, <<"u", "s", "e", "r", "1">>},
            pw \in {RFC2617Input.password, <<"u", "s", "e", "r", "1">>},
            m \in {RFC2617Input.method, <<"P", "O", "S", "T">>},
            k \in 1..MaxCounter}

HashFrame ==
    /\ UNCHANGED <<now, bLast, eLast, nLast, ClientCacheSize, ClientCacheDelta, md5>>
    /\ UNCHANGED dvars /\ UNCHANGED cvars /\ UNCHANGED wvars

HashHA1 ==
    /\ hLast.op = "Init"
    /\ hLast' = [hLast EXCEPT !.op = "HA1", !.ha1 = ha1Text(hLast.input)]
    /\ HashFrame

HashHA2 ==
    /\ hLast.op = "HA1"
    /\ hLast' = [hLast EXCEPT !.op = "HA2", !.ha2 = ha2Text(hLast.input)]
    /\ HashFrame

HashHA3 ==
    /\ hLast.op = "HA2"
    /\ hLast' = [hLast EXCEPT !.op = "HA3",
                              !.response = ha3Text(hLast.ha1, hLast.input, hLast.ha2)]
    /\ HashFrame

NextHash == HashHA1 \/ HashHA2 \/ HashHA3

InitHash ==
    /\ DigestInit /\ RequireXsrfHeader = FALSE /\ CookieInit /\ WorkersIdle
    /\ BasicInit /\ EvictInit /\ NonceInit /\ SizedInit /\ HasherInit
    /\ \E in \in HashInputs : hLast = HashCall("Init", in, << >>, << >>, << >>)

SpecHash == InitHash /\ [][NextHash]_vars

\* ---- C23 ----

\* C23: for the username, realm, password, method, path, nonce, nc, cnonce
\* and qop of the RFC 2617 example, the response computed by the chain
\* HA1 = hash(username:realm:password), HA2 = hash(method:path),
\* HA3 = hash(HA1:nonce:nc:cnonce:qop:HA2) is the response the RFC gives.
C23_ResponseVector ==
    (hLast.op = "HA3" /\ hLast.input = RFC2617Input)
    => hLast.response = RFC2617Response

\* The three stages have run on the example.
C23_Witness ==
    /\ hLast.op = "HA3"
    /\ hLast.input = RFC2617Input
    /\ Len(hLast.ha1) = 32
    /\ Len(hLast.ha2) = 32
    /\ Len(hLast.response) = 32

\* ---- the eviction loop on its own

\* The residence durations a policy is configured with; time.Duration is
\* signed, so a negative one is a value the field can hold.
Residences == (0 - 1)..ClientCacheResidence

\* The username of the record behind a pointer.
EvictUser(o) == IF o % 2 = 1 THEN "user1" ELSE "user2"

\* A heap the loop is run on: the array holds pointers 1..n in this order,
\* lc gives their lastContact values (earlier readings of the clock) and S
\* the records still in the maps.  As every lc is drawn, every arrangement
\* of values in the array occurs, ordered as a heap or not.
EvictInput(policy, lc, S, residence, t) ==
    LET info == [o \in DOMAIN lc |-> [username |-> EvictUser(o),
                                       lastContact |-> lc[o], nonce |-> o]]
        byUser == [u \in {EvictUser(o) : o \in S} |->
                      CHOOSE o \in S : EvictUser(o) = u]
    IN  EvictCall("Call", policy, [i \in DOMAIN lc |-> i], info, [o \in S |-> o],
                  IF policy = "Cookie" THEN byUser ELSE << >>, residence, t, 0)

EvictFrame ==
    /\ UNCHANGED <<now, bLast, hLast, nLast, ClientCacheSize, ClientCacheDelta, md5>>
    /\ UNCHANGED dvars /\ UNCHANGED cvars /\ UNCHANGED wvars

\* One iteration: the condition held, one entry is popped and deleted.
EvictIterate ==
    /\ eLast.op \in {"Call", "Loop"}
    /\ LET c == evictCondition(eLast.lru, eLast.info, eLast.residence, eLast.now)
       IN  ~c.fault /\ c.go
    /\ eLast' = evictBody(eLast)
    /\ EvictFrame

\* The condition failed: the function returns (or the read faulted).
EvictReturn ==
    /\ eLast.op \in {"Call", "Loop"}
    /\ LET c == evictCondition(eLast.lru, eLast.info, eLast.residence, eLast.now)
       IN  /\ c.fault \/ ~c.go
           /\ eLast' = [eLast EXCEPT !.op = IF c.fault THEN "Fault" ELSE "Return"]
    /\ EvictFrame

NextEvict == EvictIterate \/ EvictReturn

InitEvict ==
    /\ DigestInit /\ RequireXsrfHeader = FALSE /\ CookieInit /\ WorkersIdle
    /\ BasicInit /\ HashInit /\ NonceInit /\ SizedInit /\ HasherInit
    /\ \E n \in 0..MaxEntries, t \in 0..MaxTime, r \in Residences :
         \E lc \in [1..n -> 0..t] :
            \* a Digest record is in the map, a Cookie record may have left them
            \/ eLast = EvictInput("Digest", lc, 1..n, r, t)
            \/ \E S \in SUBSET (1..n) : eLast = EvictInput("Cookie", lc, S, r, t)

\* The loop is sequential code: a step that can be taken is taken.
SpecEvict == InitEvict /\ [][NextEvict]_vars /\ WF_vars(NextEvict)

\* ---- C31 ----

\* C31: evictLeastRecentlySeen of either policy, on every heap and with every
\* residence, never faults, has made at most as many iterations as the heap
\* had entries, has removed exactly one heap entry per iteration, and
\* eventually returns.
C31_EvictionTerminates ==
    /\ [](/\ eLast.op # "Fault"
          /\ eLast.iterations <= eLast.entries
          /\ Len(eLast.lru) = eLast.entries - eLast.iterations)
    /\ (eLast.op = "Call" ~> eLast.op = "Return")

\* A Cookie run that popped one of three entries, deleting its session from
\* the map, and returned with two entries left.
C31_Witness ==
    /\ eLast.op = "Return"
    /\ eLast.policy = "Cookie"
    /\ eLast.entries = 3
    /\ eLast.iterations = 1
    /\ Len(eLast.lru) = 2
    /\ Cardinality(DOMAIN eLast.byNonce) = 2

\* ---- C32 ----

\* C32: a worker that is about to call the authenticator, to generate the
\* nonce or to write to the response does not hold the mutex, and a worker
\* that holds the mutex is between Lock and the return of its call, where
\* only the maps, the heap and the clock are used.
C32_NoBlockingUnderLock ==
    \A w \in Workers :
        /\ pc[w] \in {"auth", "nonce", "respond", "setcookie"} => mutex # w
        /\ mutex = w => pc[w] = "locked"

\* One worker is about to generate its nonce while another one, behind the
\* lock of NotifyAuthRequired, is about to evict.
C32_Witness ==
    \E w, v \in Workers :
        /\ pc[w] = "nonce"
        /\ local[w].op = "createSession"
        /\ pc[v] = "locked"
        /\ local[v].op = "NotifyAuthRequired"
        /\ mutex = v

\* ---- the nonce of a session, from the random bytes to Authorize

\* The bytes rand.Read delivers: three bytes, each the least or the greatest
\* value or next to it, repeated over the buffer.
NonceBuffers ==
    {[i \in 1..nonceBytes |-> b[((i - 1) % 3) + 1]] : b \in [1..3 -> {0, 1, 254, 255}]}

\* createSession("user1", "user1") on the new policy, with the nonce that
\* createNonce makes of the bytes drawn.
NonceCreateSession(rndOk) ==
    /\ nLast.op = "Init"
    /\ LET n == createNonce(nLast.buffer, rndOk)
           r == Cookie_createSession("user1", "user1", rndOk, 1,
                                     clientsByNonce, clientsByUser, cInfo, now)
       IN  /\ nLast' = NonceCall("createSession", nLast.buffer, n.nonce, n.err)
           /\ clientsByNonce' = r.byNonce
           /\ clientsByUser' = r.byUser
           /\ cInfo' = r.info
           /\ cNonces' = IF rndOk THEN 1 ELSE 0
    /\ UNCHANGED <<now, RequireXsrfHeader, cookieLru, cLast, sessions, bLast, hLast,
                   eLast, ClientCacheSize, ClientCacheDelta, md5>>
    /\ UNCHANGED dvars /\ UNCHANGED wvars

\* The cookie values a client sends back: the nonce, the nonce without its
\* last character, with one more, with another first character, and nothing.
CookieValues(nonce) ==
    IF nonce = << >> THEN {<< >>}
    ELSE {nonce, SubSeq(nonce, 1, Len(nonce) - 1), nonce \o <<"A">>,
          <<IF nonce[1] = "A" THEN "B" ELSE "A">> \o SubSeq(nonce, 2, Len(nonce)),
          << >>}

\* The cookie of a request with this value: it spells nonce 1 or none.
CookieOf(value) ==
    [present |-> TRUE, id |-> IF value = nLast.nonce THEN 1 ELSE 0, len |-> Len(value)]

\* A worker calls Authorize with one of these cookies.
NonceAuthorize(w, value) ==
    /\ nLast.op = "createSession"
    /\ nLast.err = ""
    /\ CallAuthorize(w, [xsrf |-> NoXsrf, token |-> CookieOf(value)])

NextNonce ==
    \/ \E rndOk \in BOOLEAN : NonceCreateSession(rndOk)
    \/ \E w \in Workers, value \in CookieValues(nLast.nonce) : NonceAuthorize(w, value)
    \/ \E w \in Workers : CallLock(w)
    \/ \E w \in Workers : CallLocked(w)

InitNonce ==
    /\ DigestInit /\ RequireXsrfHeader = FALSE /\ CookieInit /\ WorkersIdle
    /\ BasicInit /\ HashInit /\ EvictInit /\ SizedInit /\ HasherInit
    /\ \E buffer \in NonceBuffers : nLast = NonceCall("Init", buffer, << >>, "")

SpecNonce == InitNonce /\ [][NextNonce]_vars

\* ---- C33 ----

\* C33: the string createNonce returns has nonceLen characters; Authorize
\* called with the nonce of the session createSession stored returns the
\* session's user; and an Authorize call whose cookie value has another
\* length never reaches the lock or the lookup behind it.
C33_NonceLength ==
    /\ (nLast.op = "createSession" /\ nLast.err = "") =>
          /\ Len(nLast.nonce) = nonceLen
          /\ Cookie_Authorize([xsrf |-> NoXsrf, token |-> CookieOf(nLast.nonce)],
                              clientsByNonce, cInfo, now, RequireXsrfHeader).username
                = "user1"
    /\ \A w \in Workers :
          (pc[w] \in {"lock", "locked"} /\ local[w].op = "Authorize")
             => local[w].token.len = nonceLen

\* A nonce made of the greatest bytes was stored, one worker holds the lock
\* in Authorize with it and another waits with a 16-character cookie that
\* spells no nonce.
C33_Witness ==
    /\ nLast.op = "createSession"
    /\ nLast.buffer = [i \in 1..nonceBytes |-> 255]
    /\ Len(nLast.nonce) = 16
    /\ \E w, v \in Workers :
          /\ pc[w] = "locked" /\ local[w].token.id = 1
          /\ pc[v] = "lock" /\ local[v].token.id = 0

\* ---- C34 ----

\* C34: a Digest.NotifyAuthRequired call in which createNonce failed (no
\* nonce was produced) answers with the internal-server-error status and no
\* WWW-Authenticate header, and adds no record to the cache or to the heap.
C34_NonceFailureInDigest ==
    [][(dLast'.op = "NotifyAuthRequired" /\ dNonces' = dNonces) =>
          /\ dLast'.status = StatusInternalServerError
          /\ dLast'.hdr = NoHdr
          /\ DOMAIN clients' \subseteq DOMAIN clients
          /\ Len(lru') <= Len(lru)
          /\ \A i \in 1..Len(lru') : \E j \in 1..Len(lru) : lru'[i] = lru[j]]_vars

\* A failed call after a successful one: the earlier record is cached, the
\* answer is the error status without a challenge.
C34_Witness ==
    /\ dLast.op = "NotifyAuthRequired"
    /\ dLast.status = StatusInternalServerError
    /\ dLast.hdr = NoHdr
    /\ DOMAIN clients = {1}
    /\ lru = <<1>>
    /\ dNonces = 1

\* ---- the size-bounded Digest

SizedFrame ==
    /\ UNCHANGED <<lru, ClientCacheSize, ClientCacheDelta, bLast, hLast, eLast, nLast,
                   md5>>
    /\ UNCHANGED hvars /\ UNCHANGED cvars /\ UNCHANGED wvars

SizedTick ==
    /\ now < MaxTime
    /\ now' = now + 1
    /\ dLast' = DigestCall("Tick", NoHeader, "", 0, NoHdr)
    /\ UNCHANGED <<clients, dNonces>>
    /\ SizedFrame

\* Authorize is the same function in both Digests; a client answers a
\* challenge with its first request.
SizedAuthorize(nonce) ==
    LET req == DigestRequest("Digest", opaque, "MD5", "auth", "/digest/", "user1",
                             "user1", nonce, <<"1">>)
        r   == Digest_Authorize(req, clients, now)
    IN  /\ clients' = r.clients
        /\ dLast' = DigestCall("Authorize", req, r.username, 0, NoHdr)
        /\ UNCHANGED <<now, dNonces>>
        /\ SizedFrame

\* One call of NotifyAuthRequired; a panic leaves the call without a response.
SizedNotifyAuthRequired(rndOk) ==
    /\ rndOk => dNonces < MaxIssued
    /\ \E r \in Sized_NotifyAuthRequired(clients, ClientCacheSize, ClientCacheDelta,
                                          now, rndOk, dNonces + 1) :
          /\ clients' = r.clients
          /\ dNonces' = IF rndOk /\ ~r.fault THEN dNonces + 1 ELSE dNonces
          /\ dLast' = DigestCall("NotifyAuthRequired", NoHeader,
                                 IF r.fault THEN "panic" ELSE "", r.status, r.hdr)
    /\ UNCHANGED now
    /\ SizedFrame

NextSized ==
    \/ SizedTick
    \/ \E nonce \in 1..dNonces : SizedAuthorize(nonce)
    \/ \E rndOk \in BOOLEAN : SizedNotifyAuthRequired(rndOk)

InitSized ==
    /\ DigestInit /\ RequireXsrfHeader = FALSE /\ CookieInit /\ WorkersIdle
    /\ BasicInit /\ HashInit /\ EvictInit /\ NonceInit /\ HasherInit
    /\ ClientCacheSize \in 0..MaxCacheSize
    /\ ClientCacheDelta \in 0..MaxCacheDelta

SpecSized == InitSized /\ [][NextSized]_vars

\* ---- C35 ----

\* C35: in the size-bounded Digest, whatever the non-negative ClientCacheSize
\* and ClientCacheDelta are, NotifyAuthRequired does not panic and the cache
\* holds at most ClientCacheSize + ClientCacheDelta + 1 records.
C35_SizeBound ==
    /\ dLast.result # "panic"
    /\ Cardinality(DOMAIN clients) <= ClientCacheSize + ClientCacheDelta + 1

\* ---- C36 ----

OtherDigest == <<"md5", <<"other">>>>

\* h.Sum(nil) of the hash object: the hash of everything written since the
\* last Reset.  One write is the string calcHash was called with; Flat is
\* the digest of a string without digests in it, user:realm:password or
\* method:path.
Sum(written) ==
    LET Flat(h) == Len(h[2]) \in {2, 3}
    IN  IF /\ Len(written) = 1
           /\ Len(written[1]) = 6 => Flat(written[1][1]) /\ Flat(written[1][6])
        THEN calcHash(written[1])
        ELSE OtherDigest

\* The string the worker hashes in its first, second and third calcHash.
HashData(l) ==
    CASE l.stage = 1 -> <<l.req.username, Realm, Auth(l.req.username)>>
      [] l.stage = 2 -> <<l.req.method, l.req.path>>
      [] l.stage = 3 -> <<l.ha1, l.req.nonce, l.req.nc, l.req.cnonce, l.req.qop, l.ha2>>

HasherFrame ==
    /\ UNCHANGED <<now, lru, dNonces, mutex, bLast, hLast, eLast, nLast,
                   ClientCacheSize, ClientCacheDelta>>
    /\ UNCHANGED hvars /\ UNCHANGED cvars

\* Authorize up to the first calcHash: the header is parsed and checked and
\* the password is looked up.
HasherAuthorize(w, req) ==
    /\ pc[w] = "idle"
    /\ IF \/ req.scheme # "Digest"
          \/ req.opaque # opaque \/ req.algorithm # "MD5" \/ req.qop # "auth"
          \/ req.uri # req.path
          \/ req.username = ""
          \/ Auth(req.username) = ""
       THEN /\ dLast' = DigestCall("Authorize", req, "", 0, NoHdr)
            /\ UNCHANGED <<pc, local>>
       ELSE /\ Goto(w, "reset")
            /\ local' = [local EXCEPT ![w] =
                            [op |-> "Authorize", req |-> req, stage |-> 1,
                             ha1 |-> << >>, ha2 |-> << >>, ha3 |-> << >>]]
            /\ UNCHANGED dLast
    /\ UNCHANGED <<clients, md5>>
    /\ HasherFrame

\* calcHash: h.Reset().
HasherReset(w) ==
    /\ pc[w] = "reset"
    /\ md5' = << >>
    /\ Goto(w, "write")
    /\ UNCHANGED <<clients, dLast, local>>
    /\ HasherFrame

\* calcHash: h.Write([]byte(data)).
HasherWrite(w) ==
    /\ pc[w] = "write"
    /\ md5' = Append(md5, HashData(local[w]))
    /\ Goto(w, "sum")
    /\ UNCHANGED <<clients, dLast, local>>
    /\ HasherFrame

\* calcHash: fmt.Sprintf("%x", h.Sum(nil)), assigned to ha1, ha2 or ha3.
HasherSum(w) ==
    /\ pc[w] = "sum"
    /\ LET l == local[w]
       IN  local' = [local EXCEPT ![w] =
                        CASE l.stage = 1 -> [l EXCEPT !.ha1 = Sum(md5), !.stage = 2]
                          [] l.stage = 2 -> [l EXCEPT !.ha2 = Sum(md5), !.stage = 3]
                          [] l.stage = 3 -> [l EXCEPT !.ha3 = Sum(md5)]]
    /\ Goto(w, IF local[w].stage = 3 THEN "verdict" ELSE "reset")
    /\ UNCHANGED <<clients, dLast, md5>>
    /\ HasherFrame

\* Authorize from the comparison of ha3 with the response to the return.
HasherVerdict(w) ==
    /\ pc[w] = "verdict"
    /\ LET req == local[w].req
           nc  == ParseUint(req.nc)
       IN  IF /\ local[w].ha3 = req.response
              /\ nc.ok
              /\ req.nonce \in DOMAIN clients
              /\ ~counterReplayed(clients[req.nonce].numContacts, nc.value)
           THEN /\ clients' = [clients EXCEPT ![req.nonce] =
                                  [numContacts |-> nc.value, lastContact |-> now,
                                   nonce |-> req.nonce]]
                /\ dLast' = DigestCall("Authorize", req, req.username, 0, NoHdr)
           ELSE /\ dLast' = DigestCall("Authorize", req, "", 0, NoHdr)
                /\ UNCHANGED clients
    /\ Goto(w, "idle")
    /\ local' = [local EXCEPT ![w] = NoLocal]
    /\ UNCHANGED md5
    /\ HasherFrame

\* The challenge that hands out the nonce the clients answer.
HasherNotifyAuthRequired(rndOk) ==
    /\ DigestNotifyAuthRequired(rndOk, MaxReplayNonces)
    /\ UNCHANGED hvars /\ UNCHANGED cvars /\ UNCHANGED wvars /\ UNCHANGED bvars

\* One valid request for each nonce, and a request without the header.
HasherRequests ==
    {DigestRequest("Digest", opaque, "MD5", "auth", "/digest/", "user1", "user1", n, <<"1">>) :
        n \in 1..MaxReplayNonces} \union {NoHeader}

NextHasher ==
    \/ \E rndOk \in BOOLEAN : HasherNotifyAuthRequired(rndOk)
    \/ \E w \in Workers, req \in HasherRequests : HasherAuthorize(w, req)
    \/ \E w \in Workers : HasherReset(w)
    \/ \E w \in Workers : HasherWrite(w)
    \/ \E w \in Workers : HasherSum(w)
    \/ \E w \in Workers : HasherVerdict(w)

SpecHasher == Init /\ [][NextHasher]_vars

\* ---- C37 ----

\* C37: the verdict an Authorize call returns is the verdict of Authorize on
\* its request and the cache alone, whatever other workers do with the
\* shared hash object meanwhile.
C37_VerdictIndependent ==
    [][\A w \in Workers :
          (pc[w] = "verdict" /\ pc'[w] = "idle") =>
              dLast'.result = Digest_Authorize(local[w].req, clients, now).username]_vars

\* ---- C38 ----

\* C38: createSession or Login of a user, Authorize or Logout with the
\* user's nonce and destroySession of it leave every other user's session
\* as it was: still stored under its nonce and its username with the same
\* username, nonce and lastContact, and still authorized by its cookie;
\* destroySession of a nonce without session changes nothing.
C38_PerUserIsolation ==
    [][LET named(token) ==
               {cInfo[clientsByNonce[k]].username :
                   k \in {j \in DOMAIN clientsByNonce : token = Token(j)}}
           users ==
               CASE SessionCall(cLast') -> {cLast'.username}
                 [] cLast'.op \in {"Authorize", "Logout"} -> named(cLast'.req.token)
                 [] cLast'.op = "destroySession" -> named(Token(cLast'.nonce))
                 [] OTHER -> {}
       IN  cLast'.op \in {"createSession", "Login", "Authorize", "destroySession", "Logout"}
           => /\ \A k \in DOMAIN clientsByNonce :
                    LET ci == cInfo[clientsByNonce[k]]
                    IN  ci.username \notin users
                        => /\ k \in DOMAIN clientsByNonce'
                           /\ cInfo'[clientsByNonce'[k]] = ci
                           /\ ci.username \in DOMAIN clientsByUser'
                           /\ cInfo'[clientsByUser'[ci.username]] = ci
                           /\ Cookie_Authorize([xsrf |-> [present |-> TRUE, value |-> "1"],
                                                token |-> Token(k)],
                                               clientsByNonce', cInfo', now',
                                               RequireXsrfHeader').username = ci.username
              /\ (cLast'.op = "destroySession" /\ cLast'.nonce \notin DOMAIN clientsByNonce)
                 => /\ cInfo' = cInfo
                    /\ UNCHANGED <<clientsByNonce, clientsByUser, cookieLru>>]_vars

\* Authorize has just refreshed the session of user1 while user2 holds a
\* session that was last seen earlier.
C38_Witness ==
    /\ cLast.op = "Authorize"
    /\ cLast.result = "user1"
    /\ "user2" \in DOMAIN clientsByUser
    /\ cInfo[clientsByUser["user1"]].lastContact = now
    /\ cInfo[clientsByUser["user2"]].lastContact < now

\* ---- C39 ----

\* C39: no session is stored with the empty username, and Authorize
\* returns the empty string only when the request names no stored session:
\* the XSRF header is missing, the cookie is missing or not of nonce length,
\* or no session has that nonce.
C39_NoEmptyUsername ==
    /\ \A k \in DOMAIN clientsByNonce : cInfo[clientsByNonce[k]].username # ""
    /\ (cLast.op = "Authorize" /\ cLast.result = "" /\ cLast.err = "")
       => \/ RequireXsrfHeader /\ ~VerifyXsrfHeader(cLast.req)
          \/ ~cLast.req.token.present
          \/ cLast.req.token.len # nonceLen
          \/ cLast.req.token.id \notin DOMAIN clientsByNonce

====
